---- MODULE Spec2Model ----
(***************************************************************************)
(* Model of CIME's machine resolver (CIME/XML/machines.py) and of the      *)
(* case submission cycle (CIME/case/case_submit.py).                       *)
(*                                                                         *)
(* Text is modelled as a sequence of tokens: one-character strings, and    *)
(* one token per environment reference "$ENV{X}".  None, NoNode and Query  *)
(* are texts of one reserved token, so that every value compared with a    *)
(* text is itself a sequence.                                              *)
(***************************************************************************)
EXTENDS Integers, Sequences, FiniteSets, TLC

VARIABLES
    \* the resolver (machines.py)
    version,        \* get_version(): 2 or 3
    nodes,          \* the nodes probing walks, in document order: [MACH, rule]
    machine_nodes,  \* the MACH of the <machine> elements of the document
    machine_files,  \* the machines with a config_machines.xml of their own
    machine,        \* self.machine
    machine_node,   \* self.machine_node, named by its MACH
    probe,          \* the last probe_machine_name call: inputs and result
    select,         \* the last set_machine call: argument, result, state before
    \* the case (case_submit.py)
    case,           \* the case's settings, as get_value returns them
    env_batch,      \* env_batch.xml: [type, content]
    locked,         \* the content of the locked copy of env_batch.xml
    call,           \* the last _submit call: arguments, inputs, result, state before
    prereq,         \* the last _build_prereq_str call: inputs and result
    \* the settings of the current machine (machines.py)
    custom_settings, \* self.custom_settings: setting name -> value, or Absent
    doc,            \* the children of machine_node: name -> attributes -> text
    environ,        \* os.environ: name -> text, or None
    cime_config,    \* get_cime_config(): option COMPILER of section main, or None
    query,          \* the last get_value / is_valid_* call: arguments and result
    \* check_case's coupling check (case_submit.py)
    coupling,       \* the last coupling check: the case's settings and the outcome
    \* submit, around _submit (case_submit.py)
    ts,             \* the TestStatus file: the status of the phases SUBMIT and RUN
    sub,            \* the submit call: its position, the exception, the job's writes
    \* two submit cycles on one case directory
    cycles          \* the case directory and, per process, the cycle's position

mvars == <<version, nodes, machine_nodes, machine_files, machine, machine_node,
           probe, select>>
svars == <<case, env_batch, locked, call>>
pvars == <<prereq>>
rvars == <<custom_settings, doc, environ, cime_config, query>>
\* the parts of the state the resolver, the submissions and _build_prereq_str
\* do not touch
cvars == <<coupling>>
tvars == <<ts, sub>>
yvars == <<cycles>>
ovars == <<rvars, cvars, tvars, yvars>>

vars == <<mvars, svars, pvars, ovars>>

-----------------------------------------------------------------------------
(* Bounds and input alphabets                                              *)

MaxNodes == 2
\* RESUBMIT starts in 0..MaxResubmit and the model resubmits down to -MaxOverdraw
MaxResubmit == 1
MaxOverdraw == 1
\* the user's edits of env_batch.xml
MaxEdits == 1
\* _build_prereq_str: previous job ids, and the length of the delimiter
MaxPrevJobs == 3
MaxDelimiter == 2

None == <<"None">>
NoNode == <<"NoNode">>
Query == <<"Query">>

ENVX == "$ENV{X}"
EnvTokens == {ENVX}

\* MACH names; "a" is a proper prefix of "ab"
Names == {<<"a">>, <<"a", "b">>, <<"b">>}

\* what socket.getfqdn() and socket.gethostname() may return
Hostnames == {<<"a">>, <<"a", "b">>, <<"b">>}

\* values of the environment variable X (None: not set)
EnvValues == {None, <<"a">>, <<"b">>, <<"a", ":", "a">>}

\* NODENAME_REGEX texts: two regular expressions, a well-formed and a
\* colon-less environment rule, an element without text
RuleTexts == {<<"b">>, <<".">>, <<ENVX, ":", "a">>, <<ENVX>>, None}

-----------------------------------------------------------------------------
(* Text helpers                                                            *)

\* str.startswith("$ENV")
StartsWithEnv(s) == Len(s) > 0 /\ s[1] \in EnvTokens

\* GenericXML.get_resolved_value(text, allow_unresolved_envvars=True): every
\* reference to a set variable is replaced by its value, a reference to an
\* unset variable stays as it is
RECURSIVE get_resolved_value(_, _)
get_resolved_value(s, env) ==
    IF s = <<>> THEN <<>>
    ELSE LET h == Head(s)
             r == IF h \in EnvTokens /\ env[h] # None THEN env[h] ELSE <<h>>
         IN r \o get_resolved_value(Tail(s), env)

\* str.split(":"): the parts between the colons, one more than the colons
RECURSIVE SplitAcc(_, _, _)
SplitAcc(s, cur, acc) ==
    IF s = <<>> THEN Append(acc, cur)
    ELSE IF Head(s) = ":" THEN SplitAcc(Tail(s), <<>>, Append(acc, cur))
    ELSE SplitAcc(Tail(s), Append(cur, Head(s)), acc)

split(s) == SplitAcc(s, <<>>, <<>>)

\* re.fullmatch, the mutation of re.match that asks for the whole candidate
RECURSIVE RegexFullMatch(_, _)
RegexFullMatch(pat, s) ==
    IF pat = <<>> THEN s = <<>>
    ELSE /\ s # <<>>
         /\ (Head(pat) = "." \/ Head(pat) = Head(s))
         /\ RegexFullMatch(Tail(pat), Tail(s))

\* re.compile(regex_str).match(nametomatch), for patterns of literal
\* characters and ".": the pattern must match at the start of the candidate
RECURSIVE RegexMatch(_, _)
RegexMatch(pat, s) ==
    IF pat = <<>> THEN TRUE
    ELSE /\ s # <<>>
         /\ (Head(pat) = "." \/ Head(pat) = Head(s))
         /\ RegexMatch(Tail(pat), Tail(s))

-----------------------------------------------------------------------------
(* Machines._probe_machine_name_one_guess_v2 / _v3                         *)

\* the mutation of EvalRule that swallows the ValueError of the unpacking: a
\* resolved value without exactly two parts is a silent non-match
EvalRuleSilent(regex_str, env, nametomatch) ==
    IF regex_str = None THEN "nomatch"
    ELSE IF StartsWithEnv(regex_str)
    THEN LET machine_value == get_resolved_value(regex_str, env)
         IN IF StartsWithEnv(machine_value) THEN "nomatch"
            ELSE LET parts == split(machine_value)
                 IN IF Len(parts) # 2 THEN "nomatch"
                    ELSE IF parts[1] = parts[2] THEN "match"
                    ELSE "nomatch"
    ELSE IF RegexMatch(regex_str, nametomatch) THEN "match" ELSE "nomatch"

\* the mutation of EvalRule without the test for an unresolved reference
EvalRuleNoUnresolvedTest(regex_str, env, nametomatch) ==
    IF regex_str = None THEN "nomatch"
    ELSE IF StartsWithEnv(regex_str)
    THEN LET machine_value == get_resolved_value(regex_str, env)
             parts == split(machine_value)
         IN IF Len(parts) # 2 THEN "error"
            ELSE IF parts[1] = parts[2] THEN "match"
            ELSE "nomatch"
    ELSE IF RegexMatch(regex_str, nametomatch) THEN "match" ELSE "nomatch"

\* The outcome of evaluating one node's rule against nametomatch:
\* "match", "nomatch" or "error" (expect(False, "Bad formation of
\* NODENAME_REGEX ...")).  regex_str is the text compared, None when the
\* element has no text.
EvalRule(regex_str, env, nametomatch) ==
    IF regex_str = None THEN "nomatch"
    ELSE IF StartsWithEnv(regex_str)
    THEN LET machine_value == get_resolved_value(regex_str, env)
         IN IF StartsWithEnv(machine_value) THEN "nomatch"
            ELSE LET parts == split(machine_value)
                 IN IF Len(parts) # 2 THEN "error"
                    ELSE IF parts[1] = parts[2] THEN "match"
                    ELSE "nomatch"
    ELSE IF RegexMatch(regex_str, nametomatch) THEN "match" ELSE "nomatch"

\* v2: the nodes are the <machine> elements; without a NODENAME_REGEX child the
\* machine's own name is the regular expression
RegexStrV2(node) == IF node.rule = NoNode THEN node.MACH ELSE node.rule

\* v3: the nodes are the children of the NODENAME_REGEX elements
RegexStrV3(node) == node.rule

\* The loop over the nodes from position i on: the index of the first node
\* that matches (0: none, machine stays None) and whether expect() raised.
RECURSIVE GuessV2From(_, _, _, _)
GuessV2From(ns, env, nametomatch, i) ==
    IF i > Len(ns) THEN [idx |-> 0, err |-> FALSE]
    ELSE LET r == EvalRule(RegexStrV2(ns[i]), env, nametomatch)
         IN IF r = "error" THEN [idx |-> i, err |-> TRUE]
            ELSE IF r = "match" THEN [idx |-> i, err |-> FALSE]
            ELSE GuessV2From(ns, env, nametomatch, i + 1)

_probe_machine_name_one_guess_v2(ns, env, nametomatch) ==
    GuessV2From(ns, env, nametomatch, 1)

RECURSIVE GuessV3From(_, _, _, _)
GuessV3From(ns, env, nametomatch, i) ==
    IF i > Len(ns) THEN [idx |-> 0, err |-> FALSE]
    ELSE LET r == EvalRule(RegexStrV3(ns[i]), env, nametomatch)
         IN IF r = "error" THEN [idx |-> i, err |-> TRUE]
            ELSE IF r = "match" THEN [idx |-> i, err |-> FALSE]
            ELSE GuessV3From(ns, env, nametomatch, i + 1)

_probe_machine_name_one_guess_v3(ns, env, nametomatch) ==
    GuessV3From(ns, env, nametomatch, 1)

_probe_machine_name_one_guess(v, ns, env, nametomatch) ==
    IF v < 3 THEN _probe_machine_name_one_guess_v2(ns, env, nametomatch)
    ELSE _probe_machine_name_one_guess_v3(ns, env, nametomatch)

MachOf(ns, g) == IF g.idx = 0 \/ g.err THEN None ELSE ns[g.idx].MACH

\* the mutation of probe_machine_name that asks the short hostname first
ProbeHostnameFirst(v, ns, env, fqdn, hostname) ==
    LET g1 == _probe_machine_name_one_guess(v, ns, env, hostname)
    IN IF g1.err \/ g1.idx # 0
       THEN [g1 |-> g1, g2 |-> [idx |-> 0, err |-> FALSE], tried2 |-> FALSE,
             err |-> g1.err, machine |-> MachOf(ns, g1)]
       ELSE LET g2 == _probe_machine_name_one_guess(v, ns, env, fqdn)
            IN [g1 |-> g1, g2 |-> g2, tried2 |-> TRUE,
                err |-> g2.err, machine |-> MachOf(ns, g2)]

\* Machines.probe_machine_name: the fully-qualified name, then the hostname.
\* g1, g2 are the two guesses, tried2 whether the second was made, err whether
\* the call raised, machine the return value.
probe_machine_name(v, ns, env, fqdn, hostname) ==
    LET g1 == _probe_machine_name_one_guess(v, ns, env, fqdn)
    IN IF g1.err \/ g1.idx # 0
       THEN [g1 |-> g1, g2 |-> [idx |-> 0, err |-> FALSE], tried2 |-> FALSE,
             err |-> g1.err, machine |-> MachOf(ns, g1)]
       ELSE LET g2 == _probe_machine_name_one_guess(v, ns, env, hostname)
            IN [g1 |-> g1, g2 |-> g2, tried2 |-> TRUE,
                err |-> g2.err, machine |-> MachOf(ns, g2)]

-----------------------------------------------------------------------------
(* The resolver's state                                                    *)

NodeKindsV2 == [MACH : Names, rule : RuleTexts \cup {NoNode}]
NodeKindsV3 == [MACH : Names, rule : RuleTexts]

UniqueMACH(ns) == \A i, j \in 1..Len(ns) : ns[i].MACH = ns[j].MACH => i = j

NodeSeqs(kinds) ==
    {ns \in UNION {[1..n -> kinds] : n \in 0..MaxNodes} : UniqueMACH(ns)}

NoProbe == [done |-> FALSE, env |-> [t \in EnvTokens |-> None],
            fqdn |-> None, hostname |-> None,
            res |-> [g1 |-> [idx |-> 0, err |-> FALSE],
                     g2 |-> [idx |-> 0, err |-> FALSE],
                     tried2 |-> FALSE, err |-> FALSE, machine |-> None]]

NoSelect == [done |-> FALSE, name |-> None, err |-> FALSE, ret |-> None,
             before |-> [machine |-> None, machine_node |-> None,
                         machine_nodes |-> {}]]

\* Machines.__init__ with machine="Query": nothing is selected
InitMachines ==
    /\ version \in {2, 3}
    /\ nodes \in (IF version < 3 THEN NodeSeqs(NodeKindsV2) ELSE NodeSeqs(NodeKindsV3))
    /\ machine_nodes = (IF version < 3 THEN {nodes[i].MACH : i \in 1..Len(nodes)} ELSE {})
    /\ machine_files = (IF version < 3 THEN {} ELSE {nodes[i].MACH : i \in 1..Len(nodes)})
    /\ machine = None
    /\ machine_node = None
    /\ probe = NoProbe
    /\ select = NoSelect

\* a call of probe_machine_name() on a host whose names are fqdn and hostname
Probe ==
    \E env \in [EnvTokens -> EnvValues], fqdn \in Hostnames, hostname \in Hostnames :
        /\ probe' = [done |-> TRUE, env |-> env, fqdn |-> fqdn, hostname |-> hostname,
                     res |-> probe_machine_name(version, nodes, env, fqdn, hostname)]
        /\ UNCHANGED <<version, nodes, machine_nodes, machine_files, machine,
                       machine_node, select, svars, pvars, ovars>>

NextProbe == Probe

-----------------------------------------------------------------------------
(* Machines.set_machine                                                    *)

\* the mutation of set_machine that assigns self.machine before the lookup
set_machine_assign_first(v, mnodes, mfiles, m, mnode, name) ==
    IF name = Query
    THEN [machine_nodes |-> mnodes, machine |-> m, machine_node |-> mnode,
          err |-> FALSE, ret |-> name]
    ELSE LET read == IF v = 3 /\ name \in mfiles THEN mnodes \cup {name} ELSE mnodes
         IN IF name \notin read
            THEN [machine_nodes |-> read, machine |-> name, machine_node |-> mnode,
                  err |-> TRUE, ret |-> None]
            ELSE [machine_nodes |-> read, machine |-> name, machine_node |-> name,
                  err |-> FALSE, ret |-> name]

\* set_machine(machine): mnodes are the MACH of the <machine> elements of the
\* document, mfiles the machines that have a config_machines.xml of their own
\* (read into the document by a version-3 resolver).  A node is named by its
\* MACH.  err: get_child raised "No machine <name> found".
set_machine(v, mnodes, mfiles, m, mnode, name) ==
    IF name = Query
    THEN [machine_nodes |-> mnodes, machine |-> m, machine_node |-> mnode,
          err |-> FALSE, ret |-> name]
    ELSE LET read == IF v = 3 /\ name \in mfiles THEN mnodes \cup {name} ELSE mnodes
         IN IF name \notin read
            THEN [machine_nodes |-> read, machine |-> m, machine_node |-> mnode,
                  err |-> TRUE, ret |-> None]
            ELSE [machine_nodes |-> read, machine |-> name, machine_node |-> name,
                  err |-> FALSE, ret |-> name]

\* Machines.get_machine_name
get_machine_name == machine

\* a resolver built with machine="Query" over a document of <machine> elements
\* (version 2) or over per-machine files (version 3)
InitSelect ==
    /\ version \in {2, 3}
    /\ nodes \in (IF version < 3 THEN NodeSeqs([MACH : Names, rule : {NoNode}])
                  ELSE {<<>>})
    /\ machine_nodes = {nodes[i].MACH : i \in 1..Len(nodes)}
    /\ machine_files \in (IF version < 3 THEN {{}} ELSE SUBSET Names)
    /\ machine = None
    /\ machine_node = None
    /\ probe = NoProbe
    /\ select = NoSelect

SetMachine ==
    \E name \in Names \cup {Query} :
        LET r == set_machine(version, machine_nodes, machine_files, machine,
                             machine_node, name)
        IN /\ machine_nodes' = r.machine_nodes
           /\ machine' = r.machine
           /\ machine_node' = r.machine_node
           /\ select' = [done |-> TRUE, name |-> name, err |-> r.err, ret |-> r.ret,
                         before |-> [machine |-> machine, machine_node |-> machine_node,
                                     machine_nodes |-> machine_nodes]]
           /\ UNCHANGED <<version, nodes, machine_files, probe, svars, pvars, ovars>>

NextSelect == SetMachine

-----------------------------------------------------------------------------
(* Machines.get_value, set_value, get_field_from_list, is_valid_*          *)

\* the names of the settings asked for: N stands for every name without
\* special treatment
SettingNames == {"N", "COMPILER", "COMPILERS", "MPILIB", "MPILIBS"}
\* attributes=None, and one set of attributes
Plain == "plain"
Qualified == "qualified"
AttributeSets == {Plain, Qualified}

\* the values get_value returns: a text, an integer or None
StrValue(t) == [kind |-> "str", text |-> t]
IntValue(t) == [kind |-> "int", text |-> t]
NoValue == [kind |-> "none", text |-> <<>>]
\* name not in self.custom_settings
Absent == [kind |-> "absent", text |-> <<>>]

UNSET == <<"UNSET">>
MpiSerial == <<"mpi-serial">>
Digits == {"7"}

\* convert_to_unknown_type: None stays None, a text of digits becomes an
\* integer, another text stays a text
convert_to_unknown_type(t) ==
    IF t = None THEN NoValue
    ELSE IF t # <<>> /\ \A i \in 1..Len(t) : t[i] \in Digits THEN IntValue(t)
    ELSE StrValue(t)

\* a reference that GenericXML.get_resolved_value(text) cannot resolve
HasUnresolved(t) == \E i \in 1..Len(t) : t[i] \in EnvTokens /\ environ[t[i]] = None

\* str.split(","): the entries between the commas
RECURSIVE SplitCommaAcc(_, _, _)
SplitCommaAcc(s, cur, acc) ==
    IF s = <<>> THEN Append(acc, cur)
    ELSE IF Head(s) = "," THEN SplitCommaAcc(Tail(s), <<>>, Append(acc, cur))
    ELSE SplitCommaAcc(Tail(s), Append(cur, Head(s)), acc)

SplitComma(s) == SplitCommaAcc(s, <<>>, <<>>)

\* self.get_optional_child(name, root=self.machine_node, attributes=attributes)
\* and self.text(node): NoNode, None (an element without text) or the text
NodeText(name, attributes) == doc[name][attributes]

Returned(v) == [raised |-> FALSE, value |-> v]
Raised == [raised |-> TRUE, value |-> NoValue]
\* what get_field_from_list and the defaults return: a text or None
ReturnedRaw(t) == [raised |-> FALSE, raw |-> t]
RaisedRaw == [raised |-> TRUE, raw |-> None]

RECURSIVE get_value(_, _, _)
RECURSIVE get_value_override_first(_, _, _)
RECURSIVE get_field_from_list(_, _, _)
RECURSIVE get_default_compiler
RECURSIVE get_default_MPIlib(_)
RECURSIVE is_valid_compiler(_)
RECURSIVE is_valid_MPIlib(_, _)

\* lines 397-416 of get_value: the value of the node, of the list or of the
\* environment, resolved and converted
ValueOfNode(name, attributes, resolved) ==
    LET r == IF name = "COMPILER" THEN get_default_compiler
             ELSE IF name = "MPILIB" THEN get_default_MPIlib(attributes)
             ELSE LET t == NodeText(name, attributes)
                  IN ReturnedRaw(IF t = NoNode THEN None ELSE t)
    IN IF r.raised THEN Raised
       ELSE IF ~resolved
       THEN Returned(IF r.raw = None THEN NoValue ELSE StrValue(r.raw))
       ELSE IF r.raw # None
       THEN IF HasUnresolved(r.raw) THEN Raised
            ELSE Returned(convert_to_unknown_type(get_resolved_value(r.raw, environ)))
       ELSE IF environ[name] # None
       THEN Returned(convert_to_unknown_type(environ[name]))
       ELSE Returned(NoValue)

\* the mutation of get_value that looks for an override before it looks for
\* the machine
get_value_override_first(name, attributes, resolved) ==
    IF custom_settings[name] # Absent THEN Returned(custom_settings[name])
    ELSE IF machine_node = None THEN Returned(NoValue)
    ELSE ValueOfNode(name, attributes, resolved)

\* Machines.get_value(name, attributes, resolved)
get_value(name, attributes, resolved) ==
    IF machine_node = None THEN Returned(NoValue)
    ELSE IF custom_settings[name] # Absent THEN Returned(custom_settings[name])
    ELSE ValueOfNode(name, attributes, resolved)

\* Machines.get_field_from_list(listname, reqval, attributes): it raises
\* without a machine, without a list, and for a list that is not a text
get_field_from_list(listname, reqval, attributes) ==
    IF machine_node = None THEN RaisedRaw
    ELSE
    LET first == get_value(listname, attributes, TRUE)
        supported_values == IF ~first.raised /\ first.value = NoValue
                            THEN get_value(listname, Plain, TRUE)
                            ELSE first
    IN IF supported_values.raised \/ supported_values.value.kind # "str"
       THEN RaisedRaw
       ELSE LET entries == SplitComma(supported_values.value.text)
            IN IF reqval = None \/ reqval = UNSET THEN ReturnedRaw(entries[1])
               ELSE IF \E i \in 1..Len(entries) : entries[i] = reqval
               THEN ReturnedRaw(reqval)
               ELSE ReturnedRaw(None)

\* Machines.get_default_compiler
get_default_compiler ==
    IF cime_config # None
    THEN LET v == is_valid_compiler(cime_config)
         IN IF v.raised \/ ~v.value THEN RaisedRaw ELSE ReturnedRaw(cime_config)
    ELSE get_field_from_list("COMPILERS", None, Plain)

\* Machines.get_default_MPIlib
get_default_MPIlib(attributes) == get_field_from_list("MPILIBS", None, attributes)

\* Machines.is_valid_compiler
is_valid_compiler(compiler) ==
    LET r == get_field_from_list("COMPILERS", compiler, Plain)
    IN [raised |-> r.raised, value |-> ~r.raised /\ r.raw # None]

\* Machines.is_valid_MPIlib
is_valid_MPIlib(mpilib, attributes) ==
    IF mpilib = MpiSerial THEN [raised |-> FALSE, value |-> TRUE]
    ELSE LET r == get_field_from_list("MPILIBS", mpilib, attributes)
         IN [raised |-> r.raised, value |-> ~r.raised /\ r.raw # None]

\* the documents of the specification of the settings: the node N with and
\* without attributes, the lists COMPILERS and MPILIBS, MPILIBS also qualified
NoSetting == [a \in AttributeSets |-> NoNode]
Docs ==
    {[n \in SettingNames |->
        CASE n = "N" -> [a \in AttributeSets |-> IF a = Plain THEN np ELSE nq]
          [] n = "COMPILERS" -> [a \in AttributeSets |-> IF a = Plain THEN cs ELSE NoNode]
          [] n = "MPILIBS" -> [a \in AttributeSets |-> IF a = Plain THEN mp ELSE mq]
          [] OTHER -> NoSetting] :
        np \in {NoNode, None, <<"v">>, <<"7">>, <<ENVX>>},
        nq \in {NoNode, <<"w">>},
        cs \in {NoNode, <<"gnu", ",", "intel">>},
        mp \in {NoNode, <<"mpich">>},
        mq \in {NoNode, <<"openmpi", ",", "mpich">>}}
NoEnviron == [n \in SettingNames \cup EnvTokens |-> None]
Environs ==
    {[NoEnviron EXCEPT !["N"] = n, ![ENVX] = x] :
        n \in {None, <<"e">>}, x \in {None, <<"x">>}}
\* the values set_value is called with
Overrides ==
    {<<"N", StrValue(<<"o">>)>>, <<"N", NoValue>>,
     <<"COMPILERS", StrValue(<<"pgi">>)>>, <<"COMPILER", StrValue(<<"c">>)>>}
NoOverrides == [n \in SettingNames |-> Absent]
\* the compilers and MPI libraries asked about
Compilers == {<<"gnu">>, <<"intel">>, <<"pgi">>, UNSET}
MPIlibs == {<<"mpich">>, <<"openmpi">>, <<"pgi">>, MpiSerial, UNSET}

NoQuery == [done |-> FALSE, op |-> "none", name |-> "N", attributes |-> Plain,
            resolved |-> TRUE, x |-> None, raised |-> FALSE, value |-> NoValue,
            valid |-> FALSE]

\* a resolver with or without a machine selected (without: no node to look
\* under), nothing overridden
InitValues ==
    /\ machine_node \in {None, <<"a">>}
    /\ machine = machine_node
    /\ custom_settings = NoOverrides
    /\ doc \in (IF machine_node = None THEN {[n \in SettingNames |-> NoSetting]}
                 ELSE Docs)
    /\ environ \in Environs
    /\ cime_config \in {None, <<"gnu">>, <<"pgi">>}
    /\ query = NoQuery

\* Machines.set_value(vid, value)
SetValue ==
    \E o \in Overrides :
        /\ ~query.done
        /\ custom_settings[o[1]] = Absent
        /\ custom_settings' = [custom_settings EXCEPT ![o[1]] = o[2]]
        /\ UNCHANGED <<doc, environ, cime_config, query, mvars, svars, pvars, cvars, tvars, yvars>>

\* a call of get_value(name, attributes, resolved)
GetValue ==
    \E name \in SettingNames, attributes \in AttributeSets, resolved \in BOOLEAN :
        /\ ~query.done
        /\ LET r == get_value(name, attributes, resolved)
           IN query' = [NoQuery EXCEPT !.done = TRUE, !.op = "get_value",
                                       !.name = name, !.attributes = attributes,
                                       !.resolved = resolved,
                                       !.raised = r.raised, !.value = r.value]
        /\ UNCHANGED <<custom_settings, doc, environ, cime_config, mvars, svars, pvars, cvars, tvars, yvars>>

\* a call of is_valid_compiler(x)
IsValidCompiler ==
    \E x \in Compilers :
        /\ ~query.done
        /\ LET r == is_valid_compiler(x)
           IN query' = [NoQuery EXCEPT !.done = TRUE, !.op = "is_valid_compiler",
                                       !.x = x, !.raised = r.raised, !.valid = r.value]
        /\ UNCHANGED <<custom_settings, doc, environ, cime_config, mvars, svars, pvars, cvars, tvars, yvars>>

\* a call of is_valid_MPIlib(x, attributes)
IsValidMPIlib ==
    \E x \in MPIlibs, attributes \in AttributeSets :
        /\ ~query.done
        /\ LET r == is_valid_MPIlib(x, attributes)
           IN query' = [NoQuery EXCEPT !.done = TRUE, !.op = "is_valid_MPIlib",
                                       !.x = x, !.attributes = attributes,
                                       !.raised = r.raised, !.valid = r.value]
        /\ UNCHANGED <<custom_settings, doc, environ, cime_config, mvars, svars, pvars, cvars, tvars, yvars>>

\* the caller has the result
ReturnValue ==
    /\ query.done
    /\ query' = NoQuery
    /\ UNCHANGED <<custom_settings, doc, environ, cime_config, mvars, svars, pvars, cvars, tvars, yvars>>

-----------------------------------------------------------------------------
(* case_submit.py: _build_prereq_str                                       *)

\* str(job_id) of the previous jobs
JobIdTexts == {<<"1", "7">>, <<"1", "8">>, <<"1", "9">>}
DelimiterChars == {":", ",", " "}
Delimiters == UNION {[1..n -> DelimiterChars] : n \in 0..MaxDelimiter}
PrevJobIds == UNION {[1..n -> JobIdTexts] : n \in 0..MaxPrevJobs}

\* the loop: prereq_str += str(job_id) + delimiter, over prev_job_ids.values()
RECURSIVE PrereqLoop(_, _)
PrereqLoop(ids, delimiter) ==
    IF ids = <<>> THEN <<>>
    ELSE Head(ids) \o delimiter \o PrereqLoop(Tail(ids), delimiter)

\* _build_prereq_str(case, prev_job_ids), delimiter being
\* case.get_value("depend_separator"): prereq_str[:-1] drops one character
_build_prereq_str(delimiter, ids) ==
    LET prereq_str == PrereqLoop(ids, delimiter)
    IN IF prereq_str = <<>> THEN <<>>
       ELSE SubSeq(prereq_str, 1, Len(prereq_str) - 1)

NoPrereq == [done |-> FALSE, delimiter |-> <<>>, ids |-> <<>>, result |-> <<>>]

BuildPrereq ==
    \E delimiter \in Delimiters, ids \in PrevJobIds :
        /\ prereq' = [done |-> TRUE, delimiter |-> delimiter, ids |-> ids,
                      result |-> _build_prereq_str(delimiter, ids)]
        /\ UNCHANGED <<mvars, svars, ovars>>

-----------------------------------------------------------------------------
(* case_submit.py: check_case                                              *)

\* One gate of check_case: it runs if the gates before it passed and it
\* applies; fail names the gate that raises in this call ("none": no gate).
RunGate(st, applies, gate, fail) ==
    IF ~st.ok \/ ~applies THEN st
    ELSE [trace |-> Append(st.trace, gate), ok |-> fail # gate]

\* the mutation of check_case that checks the input data before it builds
\* the namelists
check_case_inputdata_first(skip_pnl, in) ==
    LET g1 == RunGate([trace |-> <<>>, ok |-> TRUE], TRUE, "check_lockedfiles", in.fail)
        g2 == RunGate(g1, TRUE, "check_all_input_data", in.fail)
        g3 == RunGate(g2, ~skip_pnl, "create_namelists", in.fail)
        g4 == RunGate(g3, in.COMP_WAV = "ww", "create_namelists_WAV", in.fail)
        g5 == RunGate(g4, in.COMP_INTERFACE = "nuopc", "check_coupling", in.fail)
    IN RunGate(g5, TRUE, "check_build_complete", in.fail)

\* check_case(skip_pnl, chksum): the calls made, in order, and whether it
\* returned (ok) or raised at the last of them
check_case(skip_pnl, in) ==
    LET g1 == RunGate([trace |-> <<>>, ok |-> TRUE], TRUE, "check_lockedfiles", in.fail)
        g2 == RunGate(g1, ~skip_pnl, "create_namelists", in.fail)
        g3 == RunGate(g2, TRUE, "check_all_input_data", in.fail)
        g4 == RunGate(g3, in.COMP_WAV = "ww", "create_namelists_WAV", in.fail)
        g5 == RunGate(g4, in.COMP_INTERFACE = "nuopc", "check_coupling", in.fail)
    IN RunGate(g5, TRUE, "check_build_complete", in.fail)

-----------------------------------------------------------------------------
(* case_submit.py: check_case, the coupling check of the nuopc interface   *)

\* NCPL_BASE_PERIOD; "month" stands for every value the code has no branch for
BasePeriods == {"hour", "day", "year", "decade", "month"}
PeriodSeconds(base) ==
    CASE base = "hour" -> 3600
      [] base = "day" -> 86400
      [] base = "year" -> 31536000
      [] base = "decade" -> 315360000
\* <COMP>_NCPL: 0 stands for None and for 0, which `if ncpl` takes alike; the
\* others divide every base period
NcplValues == {0, 30, 60}
\* the component classes besides CPL, each a stub or not
Components == [class : {"ATM", "OCN"}, stub : BOOLEAN, ncpl : NcplValues]
ComponentSeqs ==
    {<<a, o>> : a \in {c \in Components : c.class = "ATM"},
                o \in {c \in Components : c.class = "OCN"}}
StopOptions == {"nseconds", "nminutes", "nsteps"}
StopNs == {1, 24, 60, 100, 120}

\* the mutation of NcplLoop that keeps the largest NCPL in maxncpl and the
\* smallest in minncpl
RECURSIVE NcplLoopLargest(_, _)
NcplLoopLargest(comps, acc) ==
    IF comps = <<>> THEN acc
    ELSE LET comp == Head(comps)
             ncpl == IF comp.stub THEN 0 ELSE comp.ncpl
             a == IF ncpl # 0 /\ (acc.maxcomp = "None" \/ acc.maxncpl < ncpl)
                  THEN [acc EXCEPT !.maxncpl = ncpl, !.maxcomp = comp.class]
                  ELSE acc
             b == IF ncpl # 0 /\ (a.minncpl = 0 \/ a.minncpl > ncpl)
                  THEN [a EXCEPT !.minncpl = ncpl]
                  ELSE a
         IN NcplLoopLargest(Tail(comps), b)

\* lines 324-341: the loop over COMP_CLASSES without CPL; a stub has no NCPL.
\* maxncpl ends as the smallest NCPL below 10000, minncpl as the largest
RECURSIVE NcplLoop(_, _)
NcplLoop(comps, acc) ==
    IF comps = <<>> THEN acc
    ELSE LET comp == Head(comps)
             ncpl == IF comp.stub THEN 0 ELSE comp.ncpl
             a == IF ncpl # 0 /\ acc.maxncpl > ncpl
                  THEN [acc EXCEPT !.maxncpl = ncpl, !.maxcomp = comp.class]
                  ELSE acc
             b == IF ncpl # 0 /\ a.minncpl < ncpl
                  THEN [a EXCEPT !.minncpl = ncpl]
                  ELSE a
         IN NcplLoop(Tail(comps), b)

\* get_time_in_seconds(stop_n, stop_option)
get_time_in_seconds(timeval, unit) ==
    IF unit = "nminutes" THEN 60 * timeval ELSE timeval

\* lines 316-370: the outcome of the check, "ok", "CIMEError" (expect), or the
\* exception of a division by zero or of a name never bound; the divisions are
\* exact for the NCPL values of the model
CouplingCheck(comps, ncpl_base_period, stop_option, stop_n) ==
    LET l == NcplLoop(comps, [maxncpl |-> 10000, minncpl |-> 0, maxcomp |-> "None"])
        raised == [coupling_secs |-> 0, runtime |-> 0, maxcomp |-> l.maxcomp,
                   outcome |-> "NameError"]
    IN IF ncpl_base_period \notin {"hour", "day", "year", "decade"}
       THEN raised
       ELSE IF l.minncpl = 0
       THEN [raised EXCEPT !.outcome = "ZeroDivisionError"]
       ELSE LET coupling_secs == PeriodSeconds(ncpl_base_period) \div l.maxncpl
                timestep == PeriodSeconds(ncpl_base_period) \div l.minncpl
                runtime == IF stop_option = "nsteps"
                           THEN get_time_in_seconds(stop_n * timestep, "seconds")
                           ELSE get_time_in_seconds(stop_n, stop_option)
            IN [coupling_secs |-> coupling_secs, runtime |-> runtime,
                maxcomp |-> l.maxcomp,
                outcome |-> IF runtime >= coupling_secs /\ runtime % coupling_secs = 0
                            THEN "ok" ELSE "CIMEError"]

NoCoupling ==
    [done |-> FALSE, comps |-> <<>>, ncpl_base_period |-> "hour",
     stop_option |-> "nseconds", stop_n |-> 1,
     res |-> [coupling_secs |-> 0, runtime |-> 0, maxcomp |-> "None", outcome |-> "ok"]]

\* check_case reaches the coupling check of a case with these settings
CheckCoupling ==
    \E comps \in ComponentSeqs, ncpl_base_period \in BasePeriods,
       stop_option \in StopOptions, stop_n \in StopNs :
        /\ coupling' = [done |-> TRUE, comps |-> comps,
                        ncpl_base_period |-> ncpl_base_period,
                        stop_option |-> stop_option, stop_n |-> stop_n,
                        res |-> CouplingCheck(comps, ncpl_base_period,
                                              stop_option, stop_n)]
        /\ UNCHANGED <<mvars, svars, pvars, rvars, tvars, yvars>>

-----------------------------------------------------------------------------
(* case_submit.py: _submit                                                 *)

Jobs == {"case.run", "case.test"}
\* case.get_primary_job()
PrimaryJob == "case.run"
\* env_batch.get_batch_system_type()
BatchTypes == {"none", "slurm"}
Gates == {"check_lockedfiles", "create_namelists", "check_all_input_data",
          "create_namelists_WAV", "check_coupling", "check_build_complete"}
\* what the restart verification finds
Restarts == {"ok", "no_rundir", "no_rpointer", "bad_ncfile"}

\* what submit_jobs returns: job name and job id (a text, empty if none)
JobIds1 == <<[name |-> "case.run", id |-> <<"7">>]>>
JobIds2 == <<[name |-> "case.run", id |-> <<>>]>>
JobIds3 == <<[name |-> "case.run", id |-> <<"7">>],
             [name |-> "case.st_archive", id |-> <<>>],
             [name |-> "case.post", id |-> <<"8">>]>>
AdapterResults == {[ok |-> TRUE, job_ids |-> j] : j \in {JobIds1, JobIds2, JobIds3}}
                      \cup {[ok |-> FALSE, job_ids |-> <<>>]}

Args == [job : Jobs, no_batch : BOOLEAN, prereq : BOOLEAN, resubmit : BOOLEAN,
         skip_pnl : BOOLEAN, dryrun : BOOLEAN]

\* what the call reads from its surroundings: the case's components and
\* settings that _submit does not write, the files of the run directory, the
\* gate of check_case that raises, the adapter's answer
Inputs == [hasMediator : BOOLEAN, restart : Restarts,
           RESUBMIT_SETS_CONTINUE_RUN : BOOLEAN,
           COMP_WAV : {"ww", "swav"}, COMP_INTERFACE : {"nuopc", "mct"},
           fail : Gates \cup {"none"}, adapter : AdapterResults]

Log(s, event) == [s EXCEPT !.trace = Append(@, event)]
Raise(s, why) == [s EXCEPT !.failed = why]

\* check_lockedfile(case, "env_batch.xml") raises: there is a locked copy and
\* it differs from the file
LockedfileDiffers(s) == s.locked # <<>> /\ s.locked[1] # env_batch.content

\* the mutation of ContinueRunCheck that checks with a prerequisite too
ContinueRunCheckWithPrereq(s, a, in) ==
    IF s.case.CONTINUE_RUN /\ in.hasMediator
    THEN LET t == Log(s, "check_continue_run")
         IN IF in.restart = "ok" THEN t ELSE Raise(t, in.restart)
    ELSE s

\* lines 51-92: the CONTINUE_RUN check
ContinueRunCheck(s, a, in) ==
    IF s.case.CONTINUE_RUN /\ in.hasMediator /\ ~a.prereq
    THEN LET t == Log(s, "check_continue_run")
         IN IF in.restart = "ok" THEN t ELSE Raise(t, in.restart)
    ELSE s

\* the mutation of BatchSystemType that does not look at the external workflow
BatchSystemTypeOfAdapter(s, a) ==
    IF s.failed # "none" THEN s
    ELSE
    LET no_batch == a.no_batch \/ env_batch.type = "none"
        batch_system == IF no_batch THEN "none" ELSE env_batch.type
        t == [s EXCEPT !.no_batch = no_batch, !.batch_system = batch_system]
    IN IF batch_system # s.case.BATCH_SYSTEM
       THEN [Log(t, "unlock_file") EXCEPT !.locked = <<>>,
                                          !.case.BATCH_SYSTEM = batch_system]
       ELSE t

\* lines 94-109: the batch system of this call
BatchSystemType(s, a) ==
    IF s.failed # "none" THEN s
    ELSE
    LET no_batch == \/ a.no_batch
                    \/ env_batch.type = "none"
                    \/ (a.resubmit /\ s.case.EXTERNAL_WORKFLOW)
        batch_system == IF no_batch THEN "none" ELSE env_batch.type
        t == [s EXCEPT !.no_batch = no_batch, !.batch_system = batch_system]
    IN IF batch_system # s.case.BATCH_SYSTEM
       THEN [Log(t, "unlock_file") EXCEPT !.locked = <<>>,
                                          !.case.BATCH_SYSTEM = batch_system]
       ELSE t

\* the mutation of LockedfileCheck that regenerates whatever the batch system
LockedfileCheckAnyType(s) ==
    IF s.failed # "none" THEN s
    ELSE
    LET external_workflow == s.case.EXTERNAL_WORKFLOW
        env_batch_has_changed == ~external_workflow /\ LockedfileDiffers(s)
        t == IF ~external_workflow THEN Log(s, "check_lockedfile") ELSE s
        u == [t EXCEPT !.env_batch_has_changed = env_batch_has_changed]
    IN IF env_batch_has_changed /\ ~external_workflow
       THEN Log(u, "make_all_batch_files")
       ELSE u

\* lines 111-126: has env_batch.xml changed since it was locked
LockedfileCheck(s) ==
    IF s.failed # "none" THEN s
    ELSE
    LET external_workflow == s.case.EXTERNAL_WORKFLOW
        env_batch_has_changed == ~external_workflow /\ LockedfileDiffers(s)
        t == IF ~external_workflow THEN Log(s, "check_lockedfile") ELSE s
        u == [t EXCEPT !.env_batch_has_changed = env_batch_has_changed]
    IN IF s.batch_system # "none" /\ env_batch_has_changed /\ ~external_workflow
       THEN Log(u, "make_all_batch_files")
       ELSE u

\* lines 128-130: case.flush(), lock_file
FlushAndLock(s) ==
    IF s.failed # "none" THEN s
    ELSE [Log(Log(s, "flush"), "lock_file") EXCEPT !.disk = s.case,
                                                   !.locked = <<env_batch.content>>]

\* the mutation of ResubmitPath that does not touch RESUBMIT when the job is
\* case.test
ResubmitPathSkipsTest(s, a, in) ==
    LET t == IF a.job = "case.test"
             THEN [s EXCEPT !.case.IS_FIRST_RUN = FALSE]
             ELSE [s EXCEPT !.case.RESUBMIT = @ - 1]
    IN IF in.RESUBMIT_SETS_CONTINUE_RUN
       THEN [t EXCEPT !.case.CONTINUE_RUN = TRUE]
       ELSE t

\* lines 132-141: a resubmission
ResubmitPath(s, a, in) ==
    LET t == IF a.job = "case.test" THEN [s EXCEPT !.case.IS_FIRST_RUN = FALSE] ELSE s
        resub == t.case.RESUBMIT
        u == [t EXCEPT !.case.RESUBMIT = resub - 1]
    IN IF in.RESUBMIT_SETS_CONTINUE_RUN
       THEN [u EXCEPT !.case.CONTINUE_RUN = TRUE]
       ELSE u

\* the mutation of FreshPath that runs check_case before it locks env_batch.xml
FreshPathChecksFirst(s, a, in) ==
    LET t == IF a.job = "case.test" THEN [s EXCEPT !.case.IS_FIRST_RUN = TRUE] ELSE s
        batch_system == IF t.no_batch THEN "none" ELSE env_batch.type
        u == [t EXCEPT !.batch_system = batch_system,
                       !.case.BATCH_SYSTEM = batch_system]
        env_batch_has_changed == LockedfileDiffers(u)
        v == [Log(u, "check_lockedfile")
                  EXCEPT !.env_batch_has_changed = env_batch_has_changed]
        w == IF env_batch.type # "none" /\ env_batch_has_changed
             THEN Log(v, "make_all_batch_files")
             ELSE v
        cc == check_case(a.skip_pnl, in)
        x == [w EXCEPT !.trace = @ \o cc.trace]
        y == [Log(Log(x, "unlock_file"), "lock_file")
                  EXCEPT !.locked = <<env_batch.content>>]
    IN IF ~cc.ok THEN Raise(x, in.fail)
       ELSE IF a.job = PrimaryJob THEN Log(y, "check_DA_settings")
       ELSE y

\* lines 143-177: a first submission
FreshPath(s, a, in) ==
    LET t == IF a.job = "case.test" THEN [s EXCEPT !.case.IS_FIRST_RUN = TRUE] ELSE s
        batch_system == IF t.no_batch THEN "none" ELSE env_batch.type
        u == [t EXCEPT !.batch_system = batch_system,
                       !.case.BATCH_SYSTEM = batch_system]
        env_batch_has_changed == LockedfileDiffers(u)
        v == [Log(u, "check_lockedfile")
                  EXCEPT !.env_batch_has_changed = env_batch_has_changed]
        w == IF env_batch.type # "none" /\ env_batch_has_changed
             THEN Log(v, "make_all_batch_files")
             ELSE v
        x == [Log(Log(w, "unlock_file"), "lock_file")
                  EXCEPT !.locked = <<env_batch.content>>]
        cc == check_case(a.skip_pnl, in)
        y == [x EXCEPT !.trace = @ \o cc.trace]
    IN IF ~cc.ok THEN Raise(y, in.fail)
       ELSE IF a.job = PrimaryJob THEN Log(y, "check_DA_settings")
       ELSE y

\* lines 132-177
Branch(s, a, in) ==
    IF s.failed # "none" THEN s
    ELSE IF a.resubmit THEN ResubmitPath(s, a, in)
    ELSE FreshPath(s, a, in)

\* lines 179-197: load_env, flush, submit_jobs
SubmitJobs(s, a, in) ==
    IF s.failed # "none" THEN s
    ELSE LET t == [Log(Log(Log(s, "load_env"), "flush"), "submit_jobs")
                       EXCEPT !.disk = s.case]
         IN IF in.adapter.ok THEN [t EXCEPT !.job_ids = in.adapter.job_ids]
            ELSE Raise(t, "submit_jobs")

\* "{}:{}".format(name, id)
PairText(j) == <<j.name, ":">> \o j.id

\* ", ".join(xml_jobids)
RECURSIVE JoinCommaSpace(_)
JoinCommaSpace(texts) ==
    IF texts = <<>> THEN <<>>
    ELSE IF Len(texts) = 1 THEN texts[1]
    ELSE texts[1] \o <<",", " ">> \o JoinCommaSpace(Tail(texts))

\* the mutation of XmlJobids that drops the pairs without an id on a dry run too
RECURSIVE XmlJobidsWithId(_, _)
XmlJobidsWithId(job_ids, dryrun) ==
    IF job_ids = <<>> THEN <<>>
    ELSE LET j == Head(job_ids)
             rest == XmlJobidsWithId(Tail(job_ids), dryrun)
         IN IF j.id # <<>> THEN <<PairText(j)>> \o rest ELSE rest

\* lines 198-207: every pair on a dry run, else the pairs that have an id
RECURSIVE XmlJobids(_, _)
XmlJobids(job_ids, dryrun) ==
    IF job_ids = <<>> THEN <<>>
    ELSE LET j == Head(job_ids)
             rest == XmlJobids(Tail(job_ids), dryrun)
         IN IF dryrun \/ j.id # <<>> THEN <<PairText(j)>> \o rest ELSE rest

\* the mutation of RecordJobIds that writes JOB_IDS on a dry run too
RecordJobIdsOnDryrun(s, a) ==
    IF s.failed # "none" THEN s
    ELSE LET xml_jobid_text == JoinCommaSpace(XmlJobids(s.job_ids, a.dryrun))
             t == [s EXCEPT !.ret = xml_jobid_text]
         IN IF xml_jobid_text # <<>>
            THEN [t EXCEPT !.case.JOB_IDS = xml_jobid_text]
            ELSE t

\* lines 198-212: the ledger, kept in JOB_IDS and returned
RecordJobIds(s, a) ==
    IF s.failed # "none" THEN s
    ELSE LET xml_jobid_text == JoinCommaSpace(XmlJobids(s.job_ids, a.dryrun))
             t == [s EXCEPT !.ret = xml_jobid_text]
         IN IF xml_jobid_text # <<>> /\ ~a.dryrun
            THEN [t EXCEPT !.case.JOB_IDS = xml_jobid_text]
            ELSE t

\* the mutation of _submit that settles the batch system before it checks
\* CONTINUE_RUN
_submit_checks_late(a, in) ==
    LET s0 == [case |-> case, disk |-> case, locked |-> locked, trace |-> <<>>,
               failed |-> "none", no_batch |-> a.no_batch, batch_system |-> "unset",
               env_batch_has_changed |-> FALSE, job_ids |-> <<>>, ret |-> <<>>]
        s1 == BatchSystemType(s0, a)
        s2 == ContinueRunCheck(s1, a, in)
        s3 == LockedfileCheck(s2)
        s4 == FlushAndLock(s3)
        s5 == Branch(s4, a, in)
        s6 == SubmitJobs(s5, a, in)
    IN RecordJobIds(s6, a)

\* _submit(case, job, no_batch, prereq, ..., resubmit, ..., skip_pnl, ...,
\* dryrun): the call from its first line to its return or its exception.
\* disk is what case.flush() last wrote; the call starts with it in step.
_submit(a, in) ==
    LET s0 == [case |-> case, disk |-> case, locked |-> locked, trace |-> <<>>,
               failed |-> "none", no_batch |-> a.no_batch, batch_system |-> "unset",
               env_batch_has_changed |-> FALSE, job_ids |-> <<>>, ret |-> <<>>]
        s1 == ContinueRunCheck(s0, a, in)
        s2 == BatchSystemType(s1, a)
        s3 == LockedfileCheck(s2)
        s4 == FlushAndLock(s3)
        s5 == Branch(s4, a, in)
        s6 == SubmitJobs(s5, a, in)
    IN RecordJobIds(s6, a)

\* The inputs of a call, out of profile p: the restart findings, component
\* settings, raising gates and adapter answers to draw from.  An input that the
\* call does not read has one value, so that no call is counted twice: the
\* restart files are read only by the CONTINUE_RUN check,
\* RESUBMIT_SETS_CONTINUE_RUN only by a resubmission, the gates only by a first
\* submission, and the adapter only if nothing raised before it; a gate that
\* does not apply cannot raise.
ReadsRestart(a, hasMediator) == case.CONTINUE_RUN /\ hasMediator /\ ~a.prereq
GateChoices(a, COMP_WAV, COMP_INTERFACE) ==
    {"check_lockedfiles", "check_all_input_data", "check_build_complete"}
        \cup (IF a.skip_pnl THEN {} ELSE {"create_namelists"})
        \cup (IF COMP_WAV = "ww" THEN {"create_namelists_WAV"} ELSE {})
        \cup (IF COMP_INTERFACE = "nuopc" THEN {"check_coupling"} ELSE {})
AdapterOk1 == [ok |-> TRUE, job_ids |-> JobIds1]
InputsOf(a, p) ==
    UNION {
      UNION {
        IF restart # "ok"
        THEN {[hasMediator |-> hasMediator, restart |-> restart,
               RESUBMIT_SETS_CONTINUE_RUN |-> FALSE, COMP_WAV |-> "swav",
               COMP_INTERFACE |-> "mct", fail |-> "none", adapter |-> AdapterOk1]}
        ELSE IF a.resubmit
        THEN {[hasMediator |-> hasMediator, restart |-> restart,
               RESUBMIT_SETS_CONTINUE_RUN |-> rscr, COMP_WAV |-> "swav",
               COMP_INTERFACE |-> "mct", fail |-> "none", adapter |-> ad] :
                  rscr \in BOOLEAN, ad \in p.adapters}
        ELSE UNION {
               {[hasMediator |-> hasMediator, restart |-> restart,
                 RESUBMIT_SETS_CONTINUE_RUN |-> FALSE, COMP_WAV |-> cfg[1],
                 COMP_INTERFACE |-> cfg[2], fail |-> fail, adapter |-> AdapterOk1] :
                    fail \in GateChoices(a, cfg[1], cfg[2]) \cap p.gates}
               \cup
               {[hasMediator |-> hasMediator, restart |-> restart,
                 RESUBMIT_SETS_CONTINUE_RUN |-> FALSE, COMP_WAV |-> cfg[1],
                 COMP_INTERFACE |-> cfg[2], fail |-> "none", adapter |-> ad] :
                    ad \in p.adapters} :
               cfg \in p.comps} :
        restart \in (IF ReadsRestart(a, hasMediator) THEN p.restarts ELSE {"ok"})} :
      hasMediator \in (IF case.CONTINUE_RUN THEN p.mediators ELSE {TRUE})}

\* The calls of the specification of the case's submissions: every job,
\* no_batch, resubmit and dryrun, without prerequisites and with the namelists;
\* of the gates of check_case, the first and the last.
MainCalls ==
    [args |-> {a \in Args : ~a.skip_pnl /\ ~a.prereq},
     mediators |-> BOOLEAN,
     restarts |-> {"ok", "bad_ncfile"},
     comps |-> {<<"swav", "mct">>},
     gates |-> {"check_lockedfiles", "check_build_complete"},
     adapters |-> {[ok |-> TRUE, job_ids |-> JobIds1],
                   [ok |-> TRUE, job_ids |-> JobIds2],
                   [ok |-> FALSE, job_ids |-> <<>>]}]

\* The calls of the specification of the gates: every gate, component
\* setting and skip_pnl, for the plain submission and resubmission of a job.
GateCalls ==
    [args |-> {a \in Args : ~a.no_batch /\ ~a.prereq /\ ~a.dryrun},
     mediators |-> {TRUE},
     restarts |-> {"ok", "no_rundir"},
     comps |-> {"ww", "swav"} \X {"nuopc", "mct"},
     gates |-> Gates,
     adapters |-> {[ok |-> TRUE, job_ids |-> JobIds1],
                   [ok |-> FALSE, job_ids |-> <<>>]}]

\* The calls of the specification of the ledger: every answer of the adapter,
\* on a dry run and not, for the plain submission and resubmission of a job.
LedgerCalls ==
    [args |-> {a \in Args : ~a.no_batch /\ ~a.prereq /\ ~a.skip_pnl},
     mediators |-> {TRUE},
     restarts |-> {"ok"},
     comps |-> {<<"swav", "mct">>},
     gates |-> {},
     adapters |-> AdapterResults]

\* The calls of the specification of the restart verification: with and
\* without a prerequisite and a coupler, every finding of the verification,
\* for the submission and resubmission of a job to the batch system.
RestartCalls ==
    [args |-> {a \in Args : ~a.no_batch /\ ~a.skip_pnl /\ ~a.dryrun},
     mediators |-> BOOLEAN,
     restarts |-> Restarts,
     comps |-> {<<"swav", "mct">>},
     gates |-> {"check_lockedfiles"},
     adapters |-> {[ok |-> TRUE, job_ids |-> JobIds1],
                   [ok |-> FALSE, job_ids |-> <<>>]}]

Settings == [BATCH_SYSTEM : BatchTypes, RESUBMIT : 0..MaxResubmit,
             CONTINUE_RUN : BOOLEAN, IS_FIRST_RUN : {TRUE}, JOB_IDS : {<<>>},
             EXTERNAL_WORKFLOW : BOOLEAN]

NoCall == [done |-> FALSE,
           args |-> [job |-> "case.run", no_batch |-> FALSE, prereq |-> FALSE,
                     resubmit |-> FALSE, skip_pnl |-> FALSE, dryrun |-> FALSE],
           in |-> [hasMediator |-> TRUE, restart |-> "ok",
                   RESUBMIT_SETS_CONTINUE_RUN |-> FALSE, COMP_WAV |-> "swav",
                   COMP_INTERFACE |-> "mct", fail |-> "none",
                   adapter |-> [ok |-> TRUE, job_ids |-> JobIds1]],
           failed |-> "none", ret |-> <<>>, trace |-> <<>>,
           before |-> [case |-> [BATCH_SYSTEM |-> "none", RESUBMIT |-> 0,
                                 CONTINUE_RUN |-> FALSE, IS_FIRST_RUN |-> TRUE,
                                 JOB_IDS |-> <<>>, EXTERNAL_WORKFLOW |-> FALSE],
                       locked |-> <<>>],
           disk |-> [BATCH_SYSTEM |-> "none", RESUBMIT |-> 0,
                     CONTINUE_RUN |-> FALSE, IS_FIRST_RUN |-> TRUE,
                     JOB_IDS |-> <<>>, EXTERNAL_WORKFLOW |-> FALSE]]

\* a case after case.setup: env_batch.xml is locked as it stands
InitCase ==
    /\ case \in Settings
    /\ env_batch \in [type : BatchTypes, content : {0}]
    /\ locked = <<env_batch.content>>
    /\ call = NoCall

\* one call of _submit, drawn from profile p
SubmitCall(p) ==
    \E a \in p.args : \E in \in InputsOf(a, p) :
        /\ ~call.done
        /\ a.resubmit => case.RESUBMIT > -MaxOverdraw
        /\ LET r == _submit(a, in)
           IN /\ case' = r.case
              /\ locked' = r.locked
              /\ call' = [done |-> TRUE, args |-> a, in |-> in, failed |-> r.failed,
                          ret |-> r.ret, trace |-> r.trace,
                          before |-> [case |-> case, locked |-> locked],
                          disk |-> r.disk]
        /\ UNCHANGED <<env_batch, mvars, pvars, ovars>>

Submit == SubmitCall(MainCalls)

SubmitGated == SubmitCall(GateCalls)

SubmitLedger == SubmitCall(LedgerCalls)

SubmitRestart == SubmitCall(RestartCalls)

\* the caller has the call's result or exception; the case is idle again
Return ==
    /\ call.done
    /\ call' = NoCall
    /\ UNCHANGED <<case, env_batch, locked, mvars, pvars, ovars>>

\* the user edits env_batch.xml between two calls
EditEnvBatch ==
    /\ ~call.done
    /\ env_batch.content < MaxEdits
    /\ env_batch' = [env_batch EXCEPT !.content = @ + 1]
    /\ UNCHANGED <<case, locked, call, mvars, pvars, ovars>>

-----------------------------------------------------------------------------
(* case_submit.py: submit, the test status around _submit                  *)

\* TEST_PASS_STATUS, TEST_FAIL_STATUS, TEST_PEND_STATUS; Unset: no such phase
Unset == "unset"
Statuses == {"PASS", "FAIL", "PEND"}
\* what propagates out of _submit
Exceptions == {"CIMEError", "KeyboardInterrupt"}

\* TestStatus.set_status(SUBMIT_PHASE, status): a phase that is set again after
\* it has passed or failed invalidates the phases after it
set_status_submit(t, status) ==
    [SUBMIT |-> status,
     RUN |-> IF t.SUBMIT \in {"PASS", "FAIL"} THEN Unset ELSE t.RUN]

NoSub == [pc |-> "idle", test |-> FALSE, exc |-> "none", raised |-> "none",
          wrote |-> FALSE, invoked |-> FALSE, jobRun |-> Unset,
          entry |-> [SUBMIT |-> Unset, RUN |-> Unset]]

\* a case, a test or not, with the test status earlier runs have left
InitSubmit ==
    /\ sub \in {[NoSub EXCEPT !.test = t] : t \in BOOLEAN}
    /\ ts \in (IF sub.test THEN [SUBMIT : Statuses \cup {Unset}, RUN : Statuses \cup {Unset}]
               ELSE {[SUBMIT |-> Unset, RUN |-> Unset]})

\* the mutation of PreMark that sets SUBMIT to PASS whatever it is
PreMarkAlways ==
    /\ sub.pc = "idle"
    /\ IF sub.test
       THEN /\ ts' = set_status_submit(ts, "PASS")
            /\ sub' = [sub EXCEPT !.pc = "marked", !.entry = ts, !.wrote = TRUE]
       ELSE /\ ts' = ts
            /\ sub' = [sub EXCEPT !.pc = "marked", !.entry = ts]
    /\ UNCHANGED <<mvars, svars, pvars, rvars, cvars, yvars>>

\* lines 237-250: in a test, SUBMIT is set to PASS unless it is PASS
PreMark ==
    /\ sub.pc = "idle"
    /\ IF sub.test /\ ts.SUBMIT # "PASS"
       THEN /\ ts' = set_status_submit(ts, "PASS")
            /\ sub' = [sub EXCEPT !.pc = "marked", !.entry = ts, !.wrote = TRUE]
       ELSE /\ ts' = ts
            /\ sub' = [sub EXCEPT !.pc = "marked", !.entry = ts]
    /\ UNCHANGED <<mvars, svars, pvars, rvars, cvars, yvars>>

\* _submit raises before it reaches submit_jobs, or is interrupted
RaiseBeforeAdapter ==
    \E x \in Exceptions :
        /\ sub.pc = "marked"
        /\ sub' = [sub EXCEPT !.pc = "handling", !.exc = x]
        /\ UNCHANGED <<ts, mvars, svars, pvars, rvars, cvars, yvars>>

\* _submit calls submit_jobs: from here on the job may run
InvokeAdapter ==
    /\ sub.pc = "marked"
    /\ sub' = [sub EXCEPT !.pc = "submitting", !.invoked = TRUE]
    /\ UNCHANGED <<ts, mvars, svars, pvars, rvars, cvars, yvars>>

\* submit_jobs or what follows it raises, or is interrupted
RaiseAfterAdapter ==
    \E x \in Exceptions :
        /\ sub.pc = "submitting"
        /\ sub' = [sub EXCEPT !.pc = "handling", !.exc = x]
        /\ UNCHANGED <<ts, mvars, svars, pvars, rvars, cvars, yvars>>

\* run_and_log_case_status returns, and submit with it
ReturnFromSubmit ==
    /\ sub.pc = "submitting"
    /\ sub' = [sub EXCEPT !.pc = "returned"]
    /\ UNCHANGED <<ts, mvars, svars, pvars, rvars, cvars, yvars>>

\* the mutation of HandleException with `except Exception`
HandleExceptionOnly ==
    /\ sub.pc = "handling"
    /\ ts' = (IF sub.test /\ sub.exc # "KeyboardInterrupt"
              THEN set_status_submit(ts, "FAIL") ELSE ts)
    /\ sub' = [sub EXCEPT !.pc = "raised", !.raised = sub.exc]
    /\ UNCHANGED <<mvars, svars, pvars, rvars, cvars, yvars>>

\* lines 293-301: except BaseException, SUBMIT is set to FAIL in a test, raise
HandleException ==
    /\ sub.pc = "handling"
    /\ ts' = (IF sub.test THEN set_status_submit(ts, "FAIL") ELSE ts)
    /\ sub' = [sub EXCEPT !.pc = "raised", !.raised = sub.exc]
    /\ UNCHANGED <<mvars, svars, pvars, rvars, cvars, yvars>>

\* the submitted job of a test reports the status of its RUN phase
JobWritesRun ==
    \E status \in Statuses :
        /\ sub.test /\ sub.invoked
        /\ sub.jobRun # status
        /\ ts' = [ts EXCEPT !.RUN = status]
        /\ sub' = [sub EXCEPT !.jobRun = status]
        /\ UNCHANGED <<mvars, svars, pvars, rvars, cvars, yvars>>

-----------------------------------------------------------------------------
(* case_submit.py: _submit, two cycles on one case directory               *)

\* the processes that run case.submit on the case directory
Procs == {1, 2}
Other(p) == 3 - p

\* a process before its cycle: its case object is not read yet
IdleCycle == [pc |-> "idle", resubmit |-> FALSE, RESUBMIT |-> 0, dirty |-> FALSE,
              env_batch_has_changed |-> FALSE, decremented |-> FALSE,
              submitted |-> FALSE]

\* the case directory: RESUBMIT in env_run.xml, env_batch.xml and its locked
\* copy; started: RESUBMIT before the cycles; overlap: a cycle has begun
\* while the other was under way
NoCycles == [RESUBMIT |-> 0, started |-> 0, content |-> 0, locked |-> <<0>>,
             overlap |-> FALSE, proc |-> [p \in Procs |-> IdleCycle]]

InitCycles ==
    cycles \in {[NoCycles EXCEPT !.RESUBMIT = r, !.started = r] :
                    r \in 1..(MaxResubmit + 1)}

UnderWay(p) == cycles.proc[p].pc \notin {"idle", "done"}

\* the process reads the case directory into its case object and calls submit
StartCycle(p) ==
    \E resubmit \in BOOLEAN :
        /\ cycles.proc[p].pc = "idle"
        /\ cycles' = [cycles EXCEPT
                          !.proc[p].pc = "check_lockedfile",
                          !.proc[p].resubmit = resubmit,
                          !.proc[p].RESUBMIT = cycles.RESUBMIT,
                          !.overlap = @ \/ UnderWay(Other(p))]
        /\ UNCHANGED <<mvars, svars, pvars, rvars, cvars, tvars>>

\* lines 111-126: check_lockedfile; whatever it raises is caught, and the
\* call goes on, the batch scripts regenerated
CheckLockedfile(p) ==
    /\ cycles.proc[p].pc = "check_lockedfile"
    /\ cycles' = [cycles EXCEPT
                      !.proc[p].pc = "lock_file",
                      !.proc[p].env_batch_has_changed =
                          (cycles.locked # <<>> /\ cycles.locked[1] # cycles.content)]
    /\ UNCHANGED <<mvars, svars, pvars, rvars, cvars, tvars>>

\* case.flush(): the case object is written if it has been set since
Flushed(c, p) ==
    IF c.proc[p].dirty
    THEN [c EXCEPT !.RESUBMIT = c.proc[p].RESUBMIT, !.proc[p].dirty = FALSE]
    ELSE c

\* lines 128-130: case.flush(), lock_file
LockFile(p) ==
    /\ cycles.proc[p].pc = "lock_file"
    /\ cycles' = [Flushed(cycles, p) EXCEPT !.locked = <<cycles.content>>,
                                            !.proc[p].pc = "branch"]
    /\ UNCHANGED <<mvars, svars, pvars, rvars, cvars, tvars>>

\* lines 132-177: a resubmission lowers RESUBMIT in the case object, a first
\* submission locks again and checks the case
BranchOfCycle(p) ==
    /\ cycles.proc[p].pc = "branch"
    /\ cycles' = IF cycles.proc[p].resubmit
                 THEN [cycles EXCEPT !.proc[p].RESUBMIT = @ - 1,
                                     !.proc[p].dirty = TRUE,
                                     !.proc[p].decremented = TRUE,
                                     !.proc[p].pc = "flush"]
                 ELSE [cycles EXCEPT !.locked = <<cycles.content>>,
                                     !.proc[p].pc = "flush"]
    /\ UNCHANGED <<mvars, svars, pvars, rvars, cvars, tvars>>

\* lines 179-181: load_env, case.flush()
FlushCycle(p) ==
    /\ cycles.proc[p].pc = "flush"
    /\ cycles' = [Flushed(cycles, p) EXCEPT !.proc[p].pc = "submit_jobs"]
    /\ UNCHANGED <<mvars, svars, pvars, rvars, cvars, tvars>>

\* lines 185-212: submit_jobs, the ledger, return
SubmitJobsOfCycle(p) ==
    /\ cycles.proc[p].pc = "submit_jobs"
    /\ cycles' = [cycles EXCEPT !.proc[p].submitted = TRUE, !.proc[p].pc = "done"]
    /\ UNCHANGED <<mvars, svars, pvars, rvars, cvars, tvars>>

Cycle(p) ==
    \/ StartCycle(p) \/ CheckLockedfile(p) \/ LockFile(p)
    \/ BranchOfCycle(p) \/ FlushCycle(p) \/ SubmitJobsOfCycle(p)

-----------------------------------------------------------------------------
(* Probing: what the claims speak of                                       *)

Candidate(k) == IF k = 1 THEN probe.fqdn ELSE probe.hostname
Guess(k) == IF k = 1 THEN probe.res.g1 ELSE probe.res.g2
Tried(k) == probe.done /\ (k = 1 \/ probe.res.tried2)

\* node i's rule was evaluated against candidate k
Evaluated(k, i) ==
    /\ Tried(k) /\ i \in 1..Len(nodes)
    /\ (Guess(k).idx = 0 \/ i <= Guess(k).idx)
MatchedAt(k, i) == Evaluated(k, i) /\ Guess(k).idx = i /\ ~Guess(k).err
RaisedAt(k, i) == Evaluated(k, i) /\ Guess(k).idx = i /\ Guess(k).err

\* the text a node is matched by
RuleText(i) == IF version < 3 /\ nodes[i].rule = NoNode THEN nodes[i].MACH
               ELSE nodes[i].rule
IsEnvRule(i) == RuleText(i) # None /\ StartsWithEnv(RuleText(i))
Resolved(i) == get_resolved_value(RuleText(i), probe.env)
Colons(s) == {k \in 1..Len(s) : s[k] = ":"}
\* s is value1:value2 with value1 = value2
TwoEqualParts(s) ==
    \E k \in 1..Len(s) : /\ Colons(s) = {k}
                          /\ SubSeq(s, 1, k - 1) = SubSeq(s, k + 1, Len(s))
\* pat, a regular expression of literals and ".", matches at the start of s
MatchesAtStart(pat, s) ==
    /\ Len(pat) <= Len(s)
    /\ \A j \in 1..Len(pat) : pat[j] = "." \/ pat[j] = s[j]
\* node i's rule holds of candidate text c
RuleHolds(i, c) ==
    /\ RuleText(i) # None
    /\ IF IsEnvRule(i) THEN ~StartsWithEnv(Resolved(i)) /\ TwoEqualParts(Resolved(i))
       ELSE MatchesAtStart(RuleText(i), c)
HasMatch(c) == \E i \in 1..Len(nodes) : RuleHolds(i, c)
FirstMatch(c) ==
    nodes[CHOOSE i \in 1..Len(nodes) :
              RuleHolds(i, c) /\ \A j \in 1..(i - 1) : ~RuleHolds(j, c)].MACH

\* C1: when probe_machine_name returns, it returns the first profile, in
\* declaration order, whose rule matches the fully-qualified name; if no
\* profile matches that, the first whose rule matches the short hostname; and
\* None if no profile matches either.
C1_FirstMatchWins ==
    (probe.done /\ ~probe.res.err) =>
        probe.res.machine =
            (IF HasMatch(probe.fqdn) THEN FirstMatch(probe.fqdn)
             ELSE IF HasMatch(probe.hostname) THEN FirstMatch(probe.hostname)
             ELSE None)

\* two profiles match the short hostname, none the fully-qualified name, and
\* the first of the two is returned
C1_Witness ==
    /\ probe.done /\ ~probe.res.err /\ Len(nodes) = 2
    /\ ~HasMatch(probe.fqdn)
    /\ RuleHolds(1, probe.hostname) /\ RuleHolds(2, probe.hostname)
    /\ probe.res.machine = nodes[1].MACH

\* C7, as claimed: every evaluated environment rule whose resolved value does
\* not split into exactly two colon-separated parts makes probing fail,
\* whatever the state of the environment.
C7_Original ==
    \A k \in 1..2 : \A i \in 1..Len(nodes) :
        (Evaluated(k, i) /\ IsEnvRule(i) /\ Cardinality(Colons(Resolved(i))) # 1)
            => RaisedAt(k, i)

\* C7, amended: an evaluated environment rule whose resolved value no longer
\* starts with $ENV and does not split into exactly two parts makes probing
\* fail at that profile; one whose resolved value still starts with $ENV is a
\* non-match without error, however it is formed.
C7_MalformedResolvedIsFatal ==
    \A k \in 1..2 : \A i \in 1..Len(nodes) :
        (Evaluated(k, i) /\ IsEnvRule(i)) =>
            /\ (~StartsWithEnv(Resolved(i)) /\ Cardinality(Colons(Resolved(i))) # 1)
                   => RaisedAt(k, i)
            /\ StartsWithEnv(Resolved(i)) => (~RaisedAt(k, i) /\ ~MatchedAt(k, i))

\* the colon-less rule "$ENV{X}" is evaluated with X set to "a" and raises
C7_Witness ==
    \E i \in 1..Len(nodes) :
        /\ RaisedAt(1, i) /\ nodes[i].rule = <<ENVX>> /\ probe.env[ENVX] = <<"a">>
        /\ probe.res.err

\* C8: an evaluated rule that starts with $ENV and resolves to value1:value2
\* matches iff value1 = value2, whatever the candidate; with its reference
\* unresolved it neither matches nor raises, and the next profile is evaluated.
C8_EnvRule ==
    \A k \in 1..2 : \A i \in 1..Len(nodes) :
        (Evaluated(k, i) /\ IsEnvRule(i)) =>
            /\ (~StartsWithEnv(Resolved(i)) /\ Cardinality(Colons(Resolved(i))) = 1)
                   => /\ ~RaisedAt(k, i)
                      /\ MatchedAt(k, i) <=> TwoEqualParts(Resolved(i))
            /\ (probe.env[ENVX] = None)
                   => /\ ~RaisedAt(k, i) /\ ~MatchedAt(k, i)
                      /\ i < Len(nodes) => Evaluated(k, i + 1)

\* the first profile's rule "$ENV{X}:a" is evaluated with X unset, and the
\* second profile is the match
C8_Witness ==
    /\ probe.done /\ Len(nodes) = 2
    /\ nodes[1].rule = <<ENVX, ":", "a">> /\ probe.env[ENVX] = None
    /\ MatchedAt(1, 2)

\* "$ENV{X}:a" matches with X = "a" a candidate that no regular expression of
\* the document matches
C8_WitnessMatch ==
    /\ probe.done /\ Len(nodes) = 1
    /\ nodes[1].rule = <<ENVX, ":", "a">> /\ probe.env[ENVX] = <<"a">>
    /\ MatchedAt(1, 1)

\* C9, as claimed: an evaluated profile without a rule matches iff the
\* candidate equals its name; an evaluated rule that is not
\* environment-encoded matches iff it matches at the start of the candidate.
C9_Original ==
    \A k \in 1..2 : \A i \in 1..Len(nodes) :
        (Evaluated(k, i) /\ ~RaisedAt(k, i)) =>
            /\ nodes[i].rule = NoNode
                   => (MatchedAt(k, i) <=> Candidate(k) = nodes[i].MACH)
            /\ (nodes[i].rule \notin {NoNode, None} /\ ~IsEnvRule(i))
                   => (MatchedAt(k, i) <=> MatchesAtStart(nodes[i].rule, Candidate(k)))

\* C9, amended: in a version-2 document an evaluated profile without a
\* NODENAME_REGEX child matches iff its own name, as a regular expression,
\* matches at the start of the candidate; a NODENAME_REGEX element without
\* text matches nothing; an evaluated rule that is not environment-encoded
\* matches iff it matches at the start of the candidate.
C9_NameIsRegex ==
    \A k \in 1..2 : \A i \in 1..Len(nodes) :
        (Evaluated(k, i) /\ ~RaisedAt(k, i)) =>
            /\ (version < 3 /\ nodes[i].rule = NoNode)
                   => (MatchedAt(k, i) <=> MatchesAtStart(nodes[i].MACH, Candidate(k)))
            /\ nodes[i].rule = None => ~MatchedAt(k, i)
            /\ (nodes[i].rule \notin {NoNode, None} /\ ~IsEnvRule(i))
                   => (MatchedAt(k, i) <=> MatchesAtStart(nodes[i].rule, Candidate(k)))

\* machine "a", without a rule, matches the host "ab"
C9_Witness ==
    /\ probe.done /\ version < 3 /\ Len(nodes) >= 1
    /\ nodes[1] = [MACH |-> <<"a">>, rule |-> NoNode]
    /\ probe.fqdn = <<"a", "b">>
    /\ MatchedAt(1, 1)

-----------------------------------------------------------------------------
(* Selection: what the claims speak of                                     *)

\* a profile of that name exists: in the document, or (version 3) in a file
ProfileExists(name) ==
    name \in select.before.machine_nodes
        \cup (IF version = 3 THEN machine_files ELSE {})

SelectionUnchanged ==
    /\ machine = select.before.machine
    /\ machine_node = select.before.machine_node

\* C10, as claimed: set_machine(name) fails iff no profile is named name and
\* otherwise makes that profile current; after set_machine("Query") nothing
\* has changed and no profile is selected.
C10_Original ==
    select.done =>
        IF select.name = Query
        THEN /\ ~select.err /\ SelectionUnchanged
             /\ machine_nodes = select.before.machine_nodes
             /\ get_machine_name = None /\ machine_node = None
        ELSE /\ select.err <=> ~ProfileExists(select.name)
             /\ ~select.err => (get_machine_name = select.name
                                 /\ machine_node = select.name)

\* C10, amended: set_machine(name) fails iff no profile is named name,
\* leaving the selection as it was, and otherwise makes that profile current;
\* set_machine("Query") changes nothing, so the selection after it is the
\* selection before it.
C10_SetMachine ==
    select.done =>
        IF select.name = Query
        THEN /\ ~select.err /\ SelectionUnchanged
             /\ machine_nodes = select.before.machine_nodes
        ELSE /\ select.err <=> ~ProfileExists(select.name)
             /\ select.err => SelectionUnchanged
             /\ ~select.err => (get_machine_name = select.name
                                 /\ machine_node = select.name)

\* with machine "a" current, set_machine of a name without profile failed
C10_WitnessFails ==
    /\ select.done /\ select.err /\ select.name = <<"b">>
    /\ select.before.machine = <<"a">> /\ machine = <<"a">>

\* with machine "a" current, set_machine("Query") returned and "a" is current
C10_Witness ==
    /\ select.done /\ select.name = Query /\ ~select.err
    /\ select.before.machine = <<"a">>
    /\ get_machine_name = <<"a">> /\ machine_node = <<"a">>

-----------------------------------------------------------------------------
(* _build_prereq_str: what the claims speak of                             *)

\* the texts joined by the delimiter, none after the last
RECURSIVE Joined(_, _)
Joined(ids, delimiter) ==
    IF ids = <<>> THEN <<>>
    ELSE IF Len(ids) = 1 THEN ids[1]
    ELSE ids[1] \o delimiter \o Joined(Tail(ids), delimiter)

\* C5: for every delimiter, of any length, _build_prereq_str returns the ids
\* in insertion order joined by the delimiter, with no trailing delimiter, and
\* the empty text for no ids.
C5_Original ==
    prereq.done => prereq.result = Joined(prereq.ids, prereq.delimiter)

\* C5, for the delimiters of one character, for which it holds
C5_OneCharacterDelimiter ==
    (prereq.done /\ Len(prereq.delimiter) = 1)
        => prereq.result = Joined(prereq.ids, prereq.delimiter)

\* the ids 17, 18, 19 with ":" gave 17:18:19
C5_Witness ==
    /\ prereq.done /\ prereq.delimiter = <<":">>
    /\ prereq.ids = <<<<"1", "7">>, <<"1", "8">>, <<"1", "9">>>>
    /\ prereq.result = <<"1", "7", ":", "1", "8", ":", "1", "9">>

-----------------------------------------------------------------------------
(* _submit: what the claims speak of                                       *)

Before == call.before.case
\* the call raised in the CONTINUE_RUN check
FailedContinueRun == call.failed \in Restarts \ {"ok"}
\* the call raised in check_case
FailedValidation == call.failed \in Gates
\* the call raised in submit_jobs
FailedAdapter == call.failed = "submit_jobs"
Failed == call.failed # "none"
\* the batch system of the call: "none" if no-batch mode is asked for or the
\* call resubmits under an external workflow, else the adapter's type
EffectiveType ==
    IF \/ call.args.no_batch
       \/ env_batch.type = "none"
       \/ (call.args.resubmit /\ Before.EXTERNAL_WORKFLOW)
    THEN "none" ELSE env_batch.type
Occurs(event) == \E i \in 1..Len(call.trace) : call.trace[i] = event
\* event e occurs, and before every occurrence of event f
Precedes(e, f) ==
    /\ Occurs(e)
    /\ \A i, j \in 1..Len(call.trace) :
           (call.trace[i] = e /\ call.trace[j] = f) => i < j

\* C2, as claimed: every call with resubmit=True lowers RESUBMIT by exactly
\* one, every other call leaves it unchanged, no call raises it.
C2_Original ==
    call.done =>
        /\ call.args.resubmit => case.RESUBMIT = Before.RESUBMIT - 1
        /\ ~call.args.resubmit => case.RESUBMIT = Before.RESUBMIT
        /\ case.RESUBMIT <= Before.RESUBMIT

\* C2, amended: a call with resubmit=True that passes the CONTINUE_RUN check
\* lowers RESUBMIT by exactly one, on a dry run and when the adapter fails too,
\* and the lowered value is flushed; a call that fails the CONTINUE_RUN check
\* and a call without resubmit leave it unchanged; no call raises it.
C2_ResubmitDecrements ==
    call.done =>
        IF call.args.resubmit /\ ~FailedContinueRun
        THEN /\ case.RESUBMIT = Before.RESUBMIT - 1
             /\ call.disk.RESUBMIT = Before.RESUBMIT - 1
        ELSE /\ case.RESUBMIT = Before.RESUBMIT
             /\ call.disk.RESUBMIT = Before.RESUBMIT

\* a dry-run resubmission of case.test whose
\* adapter fails: RESUBMIT goes from 1 to 0
C2_Witness ==
    /\ call.done /\ call.args.resubmit /\ call.args.dryrun
    /\ call.args.job = "case.test" /\ FailedAdapter
    /\ Before.RESUBMIT = 1 /\ case.RESUBMIT = 0

\* C3, as claimed: after a call that ends in a fatal error the persisted
\* state is the state before the call, apart from what the resubmit path
\* writes (RESUBMIT, CONTINUE_RUN, IS_FIRST_RUN).
C3_Original ==
    (call.done /\ Failed) =>
        /\ call.disk.BATCH_SYSTEM = Before.BATCH_SYSTEM
        /\ call.disk.JOB_IDS = Before.JOB_IDS
        /\ locked = call.before.locked
        /\ ~call.args.resubmit =>
               /\ call.disk.RESUBMIT = Before.RESUBMIT
               /\ call.disk.CONTINUE_RUN = Before.CONTINUE_RUN
               /\ call.disk.IS_FIRST_RUN = Before.IS_FIRST_RUN

\* C3, amended: after a call that ends in a fatal error JOB_IDS is what it
\* was; a failure of the CONTINUE_RUN check leaves all of the state as it was;
\* after a validation or adapter failure BATCH_SYSTEM is the call's batch
\* system, flushed, and env_batch.xml is locked as it stands, RESUBMIT and
\* CONTINUE_RUN are changed by a resubmission only, and IS_FIRST_RUN for the
\* job case.test only.
C3_FatalPaths ==
    (call.done /\ Failed) =>
        /\ case.JOB_IDS = Before.JOB_IDS
        /\ call.disk.JOB_IDS = Before.JOB_IDS
        /\ FailedContinueRun =>
               (case = Before /\ call.disk = Before /\ locked = call.before.locked)
        /\ ~FailedContinueRun =>
               /\ case.BATCH_SYSTEM = EffectiveType
               /\ call.disk.BATCH_SYSTEM = EffectiveType
               /\ locked = <<env_batch.content>>
               /\ ~call.args.resubmit =>
                      /\ case.RESUBMIT = Before.RESUBMIT
                      /\ case.CONTINUE_RUN = Before.CONTINUE_RUN
               /\ call.args.job # "case.test" =>
                      case.IS_FIRST_RUN = Before.IS_FIRST_RUN

\* a no-batch resubmission of a slurm case whose adapter fails: BATCH_SYSTEM
\* is "none" on disk, and the edited env_batch.xml is locked anew
C3_Witness ==
    /\ call.done /\ FailedAdapter /\ call.args.no_batch /\ call.args.resubmit
    /\ Before.BATCH_SYSTEM = "slurm" /\ call.disk.BATCH_SYSTEM = "none"
    /\ locked # call.before.locked

\* the CONTINUE_RUN check fails in a call that would have changed BATCH_SYSTEM
C3_WitnessEarly ==
    /\ call.done /\ FailedContinueRun /\ call.args.no_batch
    /\ Before.BATCH_SYSTEM = "slurm" /\ case.BATCH_SYSTEM = "slurm"

\* C4: a call with dryrun=True leaves JOB_IDS as it was; a call without it
\* that returns sets JOB_IDS to the returned ledger if that is not empty and
\* leaves it as it was if it is empty.
C4_JobIds ==
    call.done =>
        /\ call.args.dryrun => case.JOB_IDS = Before.JOB_IDS
        /\ (~call.args.dryrun /\ ~Failed) =>
               case.JOB_IDS = (IF call.ret # <<>> THEN call.ret ELSE Before.JOB_IDS)

\* a submission that returns an empty ledger after one that left a ledger
C4_Witness ==
    /\ call.done /\ ~call.args.dryrun /\ ~Failed
    /\ call.ret = <<>> /\ Before.JOB_IDS # <<>> /\ case.JOB_IDS = Before.JOB_IDS

\* a dry run that returns a ledger other than the one in JOB_IDS
C4_WitnessDryrun ==
    /\ call.done /\ call.args.dryrun /\ ~Failed
    /\ call.ret # <<>> /\ call.ret # Before.JOB_IDS /\ case.JOB_IDS = Before.JOB_IDS

\* the pairs of the adapter's answer that the ledger of the call is to hold
Listed == SelectSeq(call.in.adapter.job_ids,
                    LAMBDA j : call.args.dryrun \/ j.id # <<>>)
\* where the i-th listed pair starts in the ledger
RECURSIVE StartOf(_)
StartOf(i) ==
    IF i = 1 THEN 1
    ELSE StartOf(i - 1) + Len(<<Listed[i - 1].name, ":">>) + Len(Listed[i - 1].id)
                        + Len(<<",", " ">>)
\* the ledger holds, from position n on, text t
HoldsAt(n, t) ==
    /\ n + Len(t) - 1 <= Len(call.ret)
    /\ \A k \in 1..Len(t) : call.ret[n + k - 1] = t[k]
\* the ledger is the listed pairs as name:id, in order, ", " between them
IsLedgerOfListed ==
    IF Listed = <<>> THEN call.ret = <<>>
    ELSE /\ \A i \in 1..Len(Listed) :
                /\ HoldsAt(StartOf(i), <<Listed[i].name, ":">> \o Listed[i].id)
                /\ i > 1 => HoldsAt(StartOf(i) - 2, <<",", " ">>)
         /\ Len(call.ret) + 1 = StartOf(Len(Listed))
                                  + Len(<<Listed[Len(Listed)].name, ":">>)
                                  + Len(Listed[Len(Listed)].id)

\* C17: the ledger that _submit returns is the name:id pairs of the adapter's
\* answer, in the adapter's order, joined by ", "; on a dry run every pair is
\* in it, an empty id included, and otherwise exactly the pairs with an id.
C17_Ledger == (call.done /\ ~Failed) => IsLedgerOfListed

\* a dry run whose ledger has a pair without an id between two with one
C17_Witness ==
    /\ call.done /\ ~Failed /\ call.args.dryrun
    /\ call.in.adapter.job_ids = JobIds3
    /\ call.ret = <<"case.run", ":", "7", ",", " ", "case.st_archive", ":",
                    ",", " ", "case.post", ":", "8">>

\* a submission whose ledger leaves the pair without an id out
C17_WitnessSubmitted ==
    /\ call.done /\ ~Failed /\ ~call.args.dryrun
    /\ call.in.adapter.job_ids = JobIds3
    /\ call.ret = <<"case.run", ":", "7", ",", " ", "case.post", ":", "8">>

\* the submission of job case.run with no earlier ids
C17_WitnessRun ==
    /\ call.done /\ ~Failed /\ ~call.args.dryrun /\ Before.JOB_IDS = <<>>
    /\ call.args.job = "case.run" /\ call.ret = <<"case.run", ":", "7">>

\* the first place of an event in the trace of the call, 0 if it has none
FirstOf(event) ==
    IF Occurs(event)
    THEN CHOOSE i \in 1..Len(call.trace) :
            /\ call.trace[i] = event
            /\ \A j \in 1..(i - 1) : call.trace[j] # event
    ELSE 0
\* the call has set JOB_IDS or returned a ledger
Recorded == case.JOB_IDS # Before.JOB_IDS \/ call.ret # <<>>
\* the orderings of the claim that do not involve validation
FlushLockSubmitRecord ==
    /\ Occurs("check_continue_run") => FirstOf("check_continue_run") = 1
    /\ Occurs("lock_file") =>
           Occurs("flush") /\ FirstOf("flush") < FirstOf("lock_file")
    /\ Occurs("submit_jobs") => Precedes("lock_file", "submit_jobs")
    /\ Recorded => Occurs("submit_jobs") /\ ~Failed
    /\ \A g \in Gates : Occurs(g) => ~call.args.resubmit
    /\ \A g \in Gates : (Occurs(g) /\ Occurs("submit_jobs")) =>
           Precedes(g, "submit_jobs")

\* C18, as claimed: validation (first submissions only) completes before
\* env_batch.xml is locked, the case is flushed before it is locked, it is
\* locked before the adapter is invoked, and the ledger is recorded only after
\* the adapter has returned.
C18_Original ==
    call.done =>
        /\ FlushLockSubmitRecord
        /\ \A g \in Gates : Occurs(g) => Precedes(g, "lock_file")

\* C18: a call runs the restart check first, flushes the case and then locks
\* env_batch.xml, validates the case (first submissions only) after
\* env_batch.xml has been locked, and for the last time, invokes the adapter
\* after locking and validation, and records the ledger only after the
\* adapter has returned.
C18_LockThenValidate ==
    call.done =>
        /\ FlushLockSubmitRecord
        /\ \A g \in Gates : Occurs(g) => Precedes("lock_file", g)

\* a first submission that locks, validates, submits and records
C18_Witness ==
    /\ call.done /\ ~Failed /\ ~call.args.resubmit /\ Recorded
    /\ Occurs("check_continue_run")
    /\ FirstOf("flush") < FirstOf("lock_file")
    /\ FirstOf("lock_file") < FirstOf("check_lockedfiles")
    /\ FirstOf("check_build_complete") < FirstOf("submit_jobs")

\* a first submission that fails in validation, env_batch.xml locked already
C18_WitnessFailed ==
    /\ call.done /\ FailedValidation /\ ~Recorded
    /\ Occurs("lock_file") /\ call.before.locked # locked

\* env_batch.xml is not what was locked when the call began
DiffersAtCall ==
    call.before.locked # <<>> /\ call.before.locked[1] # env_batch.content
\* the call got as far as the lock check, outside an external workflow, with
\* env_batch.xml changed
ChangedAtLockCheck ==
    call.done /\ ~FailedContinueRun /\ ~Before.EXTERNAL_WORKFLOW /\ DiffersAtCall
\* the batch scripts are regenerated, and before the job is submitted
Regenerated ==
    /\ Occurs("make_all_batch_files")
    /\ Occurs("submit_jobs") => Precedes("make_all_batch_files", "submit_jobs")

C19_WitnessNone ==
    /\ ChangedAtLockCheck /\ ~call.args.resubmit /\ ~Failed
    /\ call.args.no_batch /\ EffectiveType = "none" /\ Before.BATCH_SYSTEM = "none"
    /\ ~Occurs("make_all_batch_files") /\ Occurs("submit_jobs")

\* what decides whether the restart files are verified
Continues == Before.CONTINUE_RUN /\ call.in.hasMediator /\ ~call.args.prereq
\* the restart files have been verified, first of all, and found in order
Verified ==
    /\ Occurs("check_continue_run") /\ FirstOf("check_continue_run") = 1
    /\ call.in.restart = "ok"

\* C20, as claimed: a job is handed to the adapter with CONTINUE_RUN set, a
\* coupler and no prerequisite only after the restart files have been
\* verified in that call; a mismatch fails the call before a setting is
\* changed and before a job is submitted; with a prerequisite or without a
\* coupler the verification is skipped.
C20_Original ==
    call.done =>
        /\ (Occurs("submit_jobs") /\ call.disk.CONTINUE_RUN
                /\ call.in.hasMediator /\ ~call.args.prereq) => Verified
        /\ FailedContinueRun =>
               /\ case = Before /\ call.disk = Before /\ locked = call.before.locked
               /\ ~Occurs("submit_jobs")
        /\ (call.args.prereq \/ ~call.in.hasMediator) => ~Occurs("check_continue_run")

\* C20: a call that begins with CONTINUE_RUN set, a coupler and no
\* prerequisite verifies the restart files before anything else, and hands a
\* job to the adapter only if they are in order; a mismatch fails the call
\* before a setting is changed and before a job is submitted; a call with a
\* prerequisite, without a coupler or beginning with CONTINUE_RUN unset skips
\* the verification, also the resubmission that sets CONTINUE_RUN itself.
C20_VerifiedAtEntry ==
    call.done =>
        /\ Continues =>
               /\ Occurs("check_continue_run") /\ FirstOf("check_continue_run") = 1
               /\ Occurs("submit_jobs") => Verified
               /\ call.in.restart # "ok" => FailedContinueRun
        /\ FailedContinueRun =>
               /\ Continues /\ call.trace = <<"check_continue_run">>
               /\ case = Before /\ call.disk = Before /\ locked = call.before.locked
               /\ ~Occurs("submit_jobs")
        /\ ~Continues => ~Occurs("check_continue_run")

\* a submission with CONTINUE_RUN set that is verified and then submitted
C20_Witness ==
    /\ call.done /\ Continues /\ Verified /\ Occurs("submit_jobs") /\ ~Failed
    /\ Precedes("check_continue_run", "submit_jobs")

\* a submission whose restart pointer names a file that is not there
C20_WitnessMismatch ==
    /\ call.done /\ Continues /\ call.failed = "bad_ncfile"
    /\ case = Before /\ ~Occurs("submit_jobs")

\* a submission with CONTINUE_RUN set and a prerequisite: not verified
C20_WitnessPrereq ==
    /\ call.done /\ Before.CONTINUE_RUN /\ call.in.hasMediator /\ call.args.prereq
    /\ ~Occurs("check_continue_run") /\ Occurs("submit_jobs")

\* the batch system of the call, in the words of the claim
TypeAsClaimed ==
    IF call.args.no_batch \/ (call.args.resubmit /\ Before.EXTERNAL_WORKFLOW)
    THEN "none" ELSE env_batch.type
\* env_batch.xml is unlocked where the batch system is settled, which is
\* before the case is flushed for the first time
UnlockedAtTheStep ==
    /\ Occurs("unlock_file")
    /\ Occurs("flush") => FirstOf("unlock_file") < FirstOf("flush")
\* what the claim says of the step and of the call's end
TypeIsSettled ==
    /\ TypeAsClaimed # Before.BATCH_SYSTEM =>
           /\ UnlockedAtTheStep
           /\ case.BATCH_SYSTEM = TypeAsClaimed
           /\ call.disk.BATCH_SYSTEM = TypeAsClaimed
    /\ TypeAsClaimed = Before.BATCH_SYSTEM => ~UnlockedAtTheStep
    /\ ~Failed => case.BATCH_SYSTEM = TypeAsClaimed
                      /\ call.disk.BATCH_SYSTEM = TypeAsClaimed

\* C21, as claimed: in every call the batch system is "none" in no-batch mode
\* and on a resubmission under an external workflow, else the adapter's type;
\* if it differs from BATCH_SYSTEM, env_batch.xml is unlocked and the new
\* value persisted, if not, env_batch.xml is not unlocked at that step; after
\* a call that returns, BATCH_SYSTEM is the batch system of the call.
C21_Original == call.done => TypeIsSettled

\* C21: the same of every call that gets past the restart verification; a
\* call that fails it unlocks nothing and leaves BATCH_SYSTEM as it was,
\* whatever the batch system of the call.
C21_PastVerification ==
    call.done =>
        /\ ~FailedContinueRun => TypeIsSettled
        /\ ~FailedContinueRun => EffectiveType = TypeAsClaimed
        /\ FailedContinueRun =>
               /\ ~Occurs("unlock_file") /\ locked = call.before.locked
               /\ case.BATCH_SYSTEM = Before.BATCH_SYSTEM
               /\ call.disk.BATCH_SYSTEM = Before.BATCH_SYSTEM

\* a resubmission under an external workflow of a case set up for slurm:
\* unlocked, and BATCH_SYSTEM is none when it returns
C21_Witness ==
    /\ call.done /\ ~Failed /\ call.args.resubmit /\ ~call.args.no_batch
    /\ Before.EXTERNAL_WORKFLOW /\ env_batch.type = "slurm"
    /\ Before.BATCH_SYSTEM = "slurm" /\ UnlockedAtTheStep
    /\ case.BATCH_SYSTEM = "none" /\ call.disk.BATCH_SYSTEM = "none"

\* a first submission whose batch system is the one in BATCH_SYSTEM: unlocked
\* on the fresh path only
C21_WitnessEqual ==
    /\ call.done /\ ~Failed /\ ~call.args.resubmit
    /\ TypeAsClaimed = "slurm" /\ Before.BATCH_SYSTEM = "slurm"
    /\ Occurs("unlock_file") /\ ~UnlockedAtTheStep

\* a call in no-batch mode that fails the restart verification
C21_WitnessFails ==
    /\ call.done /\ FailedContinueRun /\ TypeAsClaimed = "none"
    /\ Before.BATCH_SYSTEM = "slurm" /\ call.disk.BATCH_SYSTEM = "slurm"
    /\ ~Occurs("unlock_file")

\* the place of a gate in check_case
GateRank(g) ==
    CASE g = "check_lockedfiles" -> 1
      [] g = "create_namelists" -> 2
      [] g = "check_all_input_data" -> 3
      [] g = "create_namelists_WAV" -> 4
      [] g = "check_coupling" -> 5
      [] g = "check_build_complete" -> 6
GateIsApplied(g) ==
    CASE g = "create_namelists" -> ~call.args.skip_pnl
      [] g = "create_namelists_WAV" -> call.in.COMP_WAV = "ww"
      [] g = "check_coupling" -> call.in.COMP_INTERFACE = "nuopc"
      [] OTHER -> TRUE

\* C6: the gates of check_case run in the fixed order, each gate that applies
\* runs exactly if no gate before it raised, the call ends with the gate that
\* raised, and a first submission invokes submit_jobs only after the last
\* gate, none having raised.
C6_GatesInOrder ==
    call.done =>
        /\ \A i, j \in 1..Len(call.trace) :
               (i < j /\ call.trace[i] \in Gates /\ call.trace[j] \in Gates)
                   => GateRank(call.trace[i]) < GateRank(call.trace[j])
        /\ (~call.args.resubmit /\ ~FailedContinueRun) =>
               \A g \in Gates :
                   Occurs(g) <=> /\ GateIsApplied(g)
                                 /\ (FailedValidation => GateRank(g) <= GateRank(call.failed))
        /\ FailedValidation =>
               (call.trace[Len(call.trace)] = call.failed /\ ~Occurs("submit_jobs"))
        /\ (~call.args.resubmit /\ Occurs("submit_jobs")) =>
               (~FailedValidation /\ Precedes("check_build_complete", "submit_jobs"))
        /\ call.args.resubmit => \A g \in Gates : ~Occurs(g)

\* the input data is found missing, after the namelists were built, in a case
\* with the wave model and nuopc: neither later gate runs, and no job is
\* submitted
C6_Witness ==
    /\ call.done /\ ~call.args.resubmit /\ ~call.args.skip_pnl
    /\ call.in.COMP_WAV = "ww" /\ call.in.COMP_INTERFACE = "nuopc"
    /\ call.failed = "check_all_input_data"
    /\ Precedes("create_namelists", "check_all_input_data")
    /\ ~Occurs("create_namelists_WAV") /\ ~Occurs("submit_jobs")

\* every gate passes and the job is submitted
C6_WitnessPass ==
    /\ call.done /\ ~call.args.resubmit /\ ~Failed
    /\ \A g \in Gates : Occurs(g)
    /\ Occurs("submit_jobs")

-----------------------------------------------------------------------------
(* Settings: what the claims speak of                                      *)

GotValue == query.done /\ query.op = "get_value"
Override == custom_settings[query.name]
\* the text of the node asked for, if there is one with a text
TextOfNode == NodeText(query.name, query.attributes)
HasText == TextOfNode \notin {NoNode, None}
\* the text with its references replaced, as the value it denotes
ValueOfText(t) == convert_to_unknown_type(get_resolved_value(t, environ))
\* node, then environment, then None
NodeThenEnvironment ==
    IF HasText THEN ValueOfText(TextOfNode)
    ELSE IF environ[query.name] # None THEN convert_to_unknown_type(environ[query.name])
    ELSE NoValue
\* the entries of the list of that name that get_field_from_list reads
ListEntries(listname, attributes) ==
    LET qualified == NodeText(listname, attributes)
        plain == NodeText(listname, Plain)
        t == IF custom_settings[listname] # Absent THEN custom_settings[listname].text
             ELSE IF qualified \notin {NoNode, None} THEN qualified
             ELSE IF plain \notin {NoNode, None} THEN plain
             ELSE <<>>
    IN IF t = <<>> THEN {} ELSE {SplitComma(t)[i] : i \in 1..Len(SplitComma(t))}

\* C11, as claimed: get_value(name) returns the override if there is one,
\* otherwise the text of the matching node, otherwise the environment variable
\* of that name, otherwise None: for every name and in every state.
C11_Original ==
    (GotValue /\ query.resolved /\ ~query.raised) =>
        query.value = (IF Override # Absent THEN Override ELSE NodeThenEnvironment)

\* C11, amended: without a machine selected get_value returns None, whatever
\* is overridden; with a machine selected it returns the override if there is
\* one; otherwise, for a name other than COMPILER and MPILIB, the resolved and
\* converted text of the matching node, otherwise (if resolved is asked for)
\* the environment variable of that name, otherwise None; for COMPILER and
\* MPILIB it returns the configured compiler or an entry of the list COMPILERS
\* or MPILIBS, never a node's text or an environment variable.
C11_Precedence ==
    GotValue =>
        IF machine_node = None THEN ~query.raised /\ query.value = NoValue
        ELSE IF Override # Absent THEN ~query.raised /\ query.value = Override
        ELSE IF query.name \in {"COMPILER", "MPILIB"}
        THEN ~query.raised =>
                 /\ query.value.kind = "str"
                 /\ \/ query.name = "COMPILER" /\ query.value.text = cime_config
                    \/ query.value.text \in
                           ListEntries(IF query.name = "COMPILER" THEN "COMPILERS"
                                       ELSE "MPILIBS", query.attributes)
        ELSE IF ~query.resolved
        THEN ~query.raised
             /\ query.value = (IF HasText THEN StrValue(TextOfNode) ELSE NoValue)
        ELSE IF HasText /\ HasUnresolved(TextOfNode) THEN query.raised
        ELSE ~query.raised /\ query.value = NodeThenEnvironment

\* N is overridden and no machine is selected: get_value("N") is None
C11_Witness ==
    /\ GotValue /\ query.name = "N" /\ machine_node = None
    /\ Override = StrValue(<<"o">>) /\ query.value = NoValue

\* with a machine selected: the override wins over node and environment
C11_WitnessOverride ==
    /\ GotValue /\ query.name = "N" /\ machine_node # None /\ query.resolved
    /\ Override = StrValue(<<"o">>) /\ HasText /\ environ["N"] # None
    /\ query.value = Override

\* no node, no override: the environment variable
C11_WitnessEnvironment ==
    /\ GotValue /\ query.name = "N" /\ machine_node # None /\ query.resolved
    /\ Override = Absent /\ ~HasText /\ query.value = StrValue(<<"e">>)

AskedValid == query.done /\ query.op \in {"is_valid_compiler", "is_valid_MPIlib"}
\* the list the call looks in
AskedList ==
    IF query.op = "is_valid_compiler" THEN ListEntries("COMPILERS", Plain)
    ELSE ListEntries("MPILIBS", query.attributes)

\* C12: is_valid_compiler(x) is true iff x is an entry of the COMPILERS list,
\* is_valid_MPIlib(x) iff x is mpi-serial or an entry of the MPILIBS list for
\* the attributes, or of the unqualified list if there is none for them.
C12_Original ==
    (AskedValid /\ ~query.raised) =>
        (query.valid <=> \/ query.x \in AskedList
                         \/ query.op = "is_valid_MPIlib" /\ query.x = MpiSerial)

\* C12, for every x but UNSET, for which it holds
C12_ExceptUNSET ==
    (AskedValid /\ ~query.raised /\ query.x # UNSET) =>
        (query.valid <=> \/ query.x \in AskedList
                         \/ query.op = "is_valid_MPIlib" /\ query.x = MpiSerial)

\* mpich is in the unqualified list only, and is valid for the attributes
C12_Witness ==
    /\ AskedValid /\ query.op = "is_valid_MPIlib" /\ query.attributes = Qualified
    /\ NodeText("MPILIBS", Qualified) = NoNode /\ query.x = <<"mpich">>
    /\ query.valid

\* openmpi is in the qualified list only, and is not valid without attributes
C12_WitnessPlain ==
    /\ AskedValid /\ query.op = "is_valid_MPIlib" /\ query.attributes = Plain
    /\ NodeText("MPILIBS", Qualified) # NoNode /\ NodeText("MPILIBS", Plain) # NoNode
    /\ query.x = <<"openmpi">> /\ ~query.raised /\ ~query.valid

-----------------------------------------------------------------------------
(* The coupling check: what the claims speak of                            *)

\* the NCPL of the components that are no stubs and have one
ActiveNcpl ==
    {coupling.comps[i].ncpl : i \in {j \in 1..Len(coupling.comps) :
        ~coupling.comps[j].stub /\ coupling.comps[j].ncpl # 0}}
Largest(S) == CHOOSE n \in S : \A m \in S : m <= n
Smallest(S) == CHOOSE n \in S : \A m \in S : n <= m
KnownPeriod == coupling.ncpl_base_period \in {"hour", "day", "year", "decade"}
\* the run length in seconds, a step being the period over the largest NCPL
Runtime ==
    CASE coupling.stop_option = "nseconds" -> coupling.stop_n
      [] coupling.stop_option = "nminutes" -> 60 * coupling.stop_n
      [] coupling.stop_option = "nsteps" ->
             coupling.stop_n * (PeriodSeconds(coupling.ncpl_base_period)
                                    \div Largest(ActiveNcpl))
\* the gate passes for a coupling interval of secs seconds
PassesFor(secs) == Runtime % secs = 0 /\ Runtime >= secs

\* C13, as claimed: coupling_seconds is the base period over the largest NCPL
\* of the active components, and the gate passes iff the run length is a
\* multiple of it and not below it; otherwise it is a validation error.
C13_Original ==
    (coupling.done /\ KnownPeriod /\ ActiveNcpl # {}) =>
        LET secs == PeriodSeconds(coupling.ncpl_base_period) \div Largest(ActiveNcpl)
        IN /\ PassesFor(secs) => coupling.res.outcome = "ok"
           /\ ~PassesFor(secs) => coupling.res.outcome = "CIMEError"

\* C13, amended: coupling_seconds is the base period over the smallest NCPL
\* of the active components (the longest coupling interval), and the gate
\* passes iff the run length is a multiple of it and not below it, otherwise
\* it is a validation error; without an active component that has an NCPL the
\* check ends in a division by zero, and with a base period other than hour,
\* day, year and decade in an unbound name, neither a validation error.
C13_LongestInterval ==
    coupling.done =>
        IF ~KnownPeriod THEN coupling.res.outcome = "NameError"
        ELSE IF ActiveNcpl = {} THEN coupling.res.outcome = "ZeroDivisionError"
        ELSE LET secs == PeriodSeconds(coupling.ncpl_base_period)
                             \div Smallest(ActiveNcpl)
             IN /\ coupling.res.coupling_secs = secs
                /\ coupling.res.runtime = Runtime
                /\ coupling.res.outcome = (IF PassesFor(secs) THEN "ok" ELSE "CIMEError")

\* NCPL 60 and 30 per hour: a run of 60 seconds is rejected, the interval
\* being 120 seconds
C13_Witness ==
    /\ coupling.done /\ coupling.ncpl_base_period = "hour"
    /\ ActiveNcpl = {30, 60} /\ coupling.stop_option = "nseconds"
    /\ coupling.stop_n = 60 /\ coupling.res.coupling_secs = 120
    /\ coupling.res.outcome = "CIMEError"

\* an interval of 60 seconds: 100 seconds are rejected
C13_WitnessRejects ==
    /\ coupling.done /\ coupling.res.coupling_secs = 60 /\ coupling.res.runtime = 100
    /\ coupling.res.outcome = "CIMEError"

\* an interval of 60 seconds: 120 seconds are accepted
C13_WitnessAccepts ==
    /\ coupling.done /\ coupling.res.coupling_secs = 60 /\ coupling.res.runtime = 120
    /\ coupling.res.outcome = "ok"

-----------------------------------------------------------------------------
(* submit: what the claims speak of                                        *)

\* the job has reported a status of its RUN phase
JobReported == sub.test /\ sub.jobRun # Unset
\* the status the job reported last is the one in the test status
JobStatusKept == ts.RUN = sub.jobRun
\* submit has left, with or without an exception
Exited == sub.pc \in {"returned", "raised"}

\* C14, as the claim is worded: under every interleaving with the job that has
\* been started, a status of the RUN phase the job has written is never
\* overwritten or lost by the submitting process.
C14_Original == JobReported => JobStatusKept

\* C14: in a test, submit sets SUBMIT to PASS before the submission only when
\* SUBMIT is not PASS already; as long as the call has not failed, it writes
\* nothing to the test status once the adapter has been invoked, so that a
\* status of the RUN phase the job has written stays; only a call that fails
\* after the adapter has been invoked sets SUBMIT to FAIL over it.
C14_SuccessfulCall ==
    /\ sub.wrote => sub.test /\ sub.entry.SUBMIT # "PASS"
    /\ (sub.test /\ sub.pc # "idle" /\ sub.entry.SUBMIT # "PASS") => sub.wrote
    /\ (sub.pc = "marked" /\ ~sub.wrote) => ts = sub.entry
    /\ (JobReported /\ sub.pc \in {"submitting", "returned"}) => JobStatusKept
    /\ (JobReported /\ ~JobStatusKept) =>
            sub.pc = "raised" /\ sub.invoked /\ ts.SUBMIT = "FAIL" /\ ts.RUN = Unset

\* a resubmitting test whose job has passed its RUN phase when submit returns
C14_Witness ==
    /\ sub.pc = "returned" /\ sub.test /\ sub.entry.SUBMIT = "PASS"
    /\ sub.jobRun = "PASS" /\ ts.RUN = "PASS"

\* a test that sets SUBMIT to PASS, and whose job reports while submit runs
C14_WitnessWrote ==
    /\ sub.pc = "submitting" /\ sub.wrote /\ sub.entry.SUBMIT = "FAIL"
    /\ sub.jobRun = "PEND" /\ ts = [SUBMIT |-> "PASS", RUN |-> "PEND"]

\* C15: if an exception, an interrupt included, propagates out of the
\* submission, then in a test SUBMIT is FAIL when submit exits and the same
\* exception is raised; outside a test the test status is not touched and the
\* exception is raised; submit never returns after a failure.
C15_FailureIsRecorded ==
    /\ sub.pc = "raised" =>
            /\ sub.exc \in Exceptions /\ sub.raised = sub.exc
            /\ sub.test => ts.SUBMIT = "FAIL"
            /\ ~sub.test => ts = sub.entry
    /\ sub.exc # "none" => sub.pc \in {"handling", "raised"}
    /\ sub.pc = "returned" => sub.exc = "none" /\ sub.raised = "none"
    /\ ~sub.test => ts = NoSub.entry

\* an interrupted test
C15_Witness ==
    /\ sub.pc = "raised" /\ sub.test /\ sub.raised = "KeyboardInterrupt"
    /\ sub.entry.SUBMIT = "PASS" /\ ts.SUBMIT = "FAIL"

\* a failed submission outside a test
C15_WitnessNoTest ==
    sub.pc = "raised" /\ ~sub.test /\ sub.raised = "CIMEError" /\ sub.invoked

-----------------------------------------------------------------------------
(* Two cycles: what the claims speak of                                    *)

BothSubmitted == \A p \in Procs : cycles.proc[p].submitted
AllDone == \A p \in Procs : cycles.proc[p].pc = "done"
Decrements == Cardinality({p \in Procs : cycles.proc[p].decremented})
\* RESUBMIT in the case directory is lower by one for every decrement made
NoDecrementLost == cycles.RESUBMIT = cycles.started - Decrements

\* C16, as claimed: if a cycle begins while another is under way on the same
\* case directory, not both submit jobs, and no decrement of RESUBMIT is lost.
C16_Original ==
    cycles.overlap =>
        /\ ~BothSubmitted
        /\ AllDone => NoDecrementLost

\* two resubmissions under way together: both have submitted, and RESUBMIT
\* is lower by one only
C16_Witness ==
    /\ cycles.overlap /\ AllDone /\ BothSubmitted
    /\ \A p \in Procs : cycles.proc[p].resubmit /\ ~cycles.proc[p].env_batch_has_changed
    /\ Decrements = 2 /\ cycles.RESUBMIT = cycles.started - 1

\* cycles that follow one another lose no decrement
C16_Sequential == (~cycles.overlap /\ AllDone) => NoDecrementLost

-----------------------------------------------------------------------------
(* Specifications                                                          *)

\* the parts of the state a specification does not speak of
NoMachines ==
    /\ version = 2 /\ nodes = <<>> /\ machine_nodes = {} /\ machine_files = {}
    /\ machine = None /\ machine_node = None /\ probe = NoProbe /\ select = NoSelect
IdleCase ==
    /\ case = NoCall.before.case /\ env_batch = [type |-> "none", content |-> 0]
    /\ locked = <<0>> /\ call = NoCall
NoValues ==
    /\ custom_settings = NoOverrides /\ doc = [n \in SettingNames |-> NoSetting]
    /\ environ = NoEnviron /\ cime_config = None /\ query = NoQuery
NoTest == ts = NoSub.entry /\ sub = NoSub
IdleOthers == NoValues /\ coupling = NoCoupling /\ NoTest /\ cycles = NoCycles

\* probing, over every document of up to MaxNodes nodes
InitProbe == InitMachines /\ IdleCase /\ prereq = NoPrereq /\ IdleOthers
SpecProbe == InitProbe /\ [][NextProbe]_vars

\* selection
InitSelection == InitSelect /\ IdleCase /\ prereq = NoPrereq /\ IdleOthers
SpecSelect == InitSelection /\ [][NextSelect]_vars

\* _build_prereq_str
InitPrereq == NoMachines /\ IdleCase /\ prereq = NoPrereq /\ IdleOthers
NextPrereq == BuildPrereq
SpecPrereq == InitPrereq /\ [][NextPrereq]_vars

\* the submissions of one case
Init == NoMachines /\ InitCase /\ prereq = NoPrereq /\ IdleOthers
Next == Submit \/ Return \/ EditEnvBatch
Spec == Init /\ [][Next]_vars

\* the submissions of one case, gate by gate
NextGates == SubmitGated \/ Return \/ EditEnvBatch
SpecGates == Init /\ [][NextGates]_vars

\* the settings of the current machine
InitSettings ==
    /\ version = 2 /\ nodes = <<>> /\ machine_nodes = {<<"a">>} /\ machine_files = {}
    /\ probe = NoProbe /\ select = NoSelect
    /\ InitValues /\ IdleCase /\ prereq = NoPrereq /\ coupling = NoCoupling /\ NoTest /\ cycles = NoCycles
NextSettings == SetValue \/ GetValue \/ IsValidCompiler \/ IsValidMPIlib \/ ReturnValue
SpecSettings == InitSettings /\ [][NextSettings]_vars

\* the coupling check
InitCoupling == NoMachines /\ IdleCase /\ prereq = NoPrereq /\ NoValues
                    /\ coupling = NoCoupling /\ NoTest /\ cycles = NoCycles
NextCoupling == CheckCoupling
SpecCoupling == InitCoupling /\ [][NextCoupling]_vars

\* the ledgers of the case's submissions
NextLedger == SubmitLedger \/ Return \/ EditEnvBatch
SpecLedger == Init /\ [][NextLedger]_vars

\* the restart verification of the case's submissions
NextRestart == SubmitRestart \/ Return \/ EditEnvBatch
SpecRestart == Init /\ [][NextRestart]_vars

\* two processes that run a cycle each on one case directory
InitTwoCycles == NoMachines /\ IdleCase /\ prereq = NoPrereq /\ NoValues
                    /\ coupling = NoCoupling /\ NoTest /\ InitCycles
NextTwoCycles == \E p \in Procs : Cycle(p)
SpecTwoCycles == InitTwoCycles /\ [][NextTwoCycles]_vars

\* submit and the job it submits
InitTest == NoMachines /\ IdleCase /\ prereq = NoPrereq /\ NoValues
                /\ coupling = NoCoupling /\ InitSubmit /\ cycles = NoCycles
NextTest == PreMark \/ RaiseBeforeAdapter \/ InvokeAdapter \/ RaiseAfterAdapter
                \/ ReturnFromSubmit \/ HandleException \/ JobWritesRun
SpecTest == InitTest /\ [][NextTest]_vars

====
